---------------------------- MODULE Spec2Model ----------------------------
(***************************************************************************)
(* JetStream account-level resource manager of server/jetstream.go:       *)
(* the engine ledger (memReserved / storeReserved), the engine's account  *)
(* registry, account enable / limits update / disable, engine shutdown    *)
(* and the recovery of message sets and observables from the store        *)
(* directory.  Every lock region of the source is one atomic step; the    *)
(* steps of concurrently running operations interleave freely.            *)
(***************************************************************************)
EXTENDS Integers, Sequences, FiniteSets, TLC

(***************************************************************************)
(* Bounds and inputs                                                       *)
(***************************************************************************)

\* Number of operations started in one run: by concurrent callers (MaxOps) and
\* by a single caller (MaxSeqOps).
MaxOps == 3
MaxSeqOps == 5

\* Number of operations started in one run that recovers a store directory.
MaxRecOps == 2

\* Number of operations started in one run of a client's requests (MaxApiOps)
\* and of concurrent creates (MaxRaceOps).
MaxApiOps == 3
MaxRaceOps == 3

\* Number of operations started in one run of the store layer's usage updates.
MaxUseOps == 4

\* The width in bits of the usage counters (int64 in the source).
UsedBits == 4

\* Number of operations started in one run of the lock programs.
MaxLockOps == 3

\* Number of operations started in one run with failing set-up steps.
MaxErrOps == 3

\* Number of operations started in one run on two accounts.
MaxIsoOps == 3

\* Number of calls of the quota functions in one run.
MaxAlgOps == 2

\* The accounts of the server and the goroutines that call into the layer.
Accts == {"A", "B"}
Procs == {"p1", "p2"}

\* JetStreamConfig.MaxMemory and JetStreamConfig.MaxStore of the engine.
CfgMaxMemory == 3
CfgMaxStore == 2

\* The twelve service exports / imports, by index into allJsExports.
NumExports == 12
allJsExports == 1..NumExports

\* error values (the code's error strings); NoErr is a nil error.
NoErr == ""
ErrInsufficientMem == "insufficient memory resources available"
ErrInsufficientStore == "insufficient storage resources available"
ErrAlreadyEnabled == "jetstream already enabled for account"
ErrNotEnabled == "jetstream not enabled"
ErrNotEnabledForAccount == "jetstream not enabled for account"
ErrMaxMsgSets == "maximum number of message sets reached"
ErrMaxObservables == "maximum observables exceeds account limit"
ErrInvalidName == "invalid name"
ErrMsgSetExists == "msgset already exists"
ErrObservableExists == "observable already exists"
ErrMsgSetNotFound == "msgset not found"
ErrPanic == "panic"

\* JetStreamAccountLimits
Limits(mem, store, sets, obs) ==
    [MaxMemory |-> mem, MaxStore |-> store, MaxMsgSets |-> sets, MaxObservables |-> obs]

ZeroLimits == Limits(0, 0, 0, 0)

\* The *JetStreamAccountLimits arguments tried: <<>> is a nil pointer, <<l>> points to l.
LimitsInputs ==
    { <<>>,
      <<Limits(1, 1, 1, 1)>>,
      <<Limits(2, 2, 2, 2)>>,
      <<Limits(0, 0, 1, -1)>> }

\* Names are strings of characters, written as tuples of one-character strings.
S1 == <<"S", "1">>
S2 == <<"S", "2">>
O1 == <<"O", "1">>
O2 == <<"O", "2">>

\* ioutil.ReadDir returns the entries sorted by file name.
DirOrder == <<O1, O2, S1, S2>>

\* StorageType
MemoryStorage == "memory"
FileStorage == "file"

\* MsgSetConfig (the fields this layer reads)
MsgSetConfig(name, storage, maxBytes, replicas, maxObs) ==
    [Name |-> name, Storage |-> storage, MaxBytes |-> maxBytes,
     Replicas |-> replicas, MaxObservables |-> maxObs]

MsgSetInputs ==
    { MsgSetConfig(S1, FileStorage, 0, 1, 0),
      MsgSetConfig(S2, FileStorage, 1, 1, 1),
      MsgSetConfig(S2, MemoryStorage, 2, 1, 0) }

ObservableInputs == {O1}

(***************************************************************************)
(* State                                                                   *)
(***************************************************************************)
VARIABLES
    sjs,        \* Server.js # nil
    js,         \* the jetStream engine: memReserved, storeReserved, accounts
    jsas,       \* the jsAccount objects allocated so far, by id 1..Len(jsas)
    ajs,        \* Account.js of each account: a jsAccount id, 0 for nil
    imports,    \* the service imports installed on each account
    disk,       \* <StoreDir>/<account>/<msg set>/...
    proc,       \* each goroutine's position and locals
    ops,        \* the number of operations started so far
    crashed     \* the server process died of a panic

vars == <<sjs, js, jsas, ajs, imports, disk, proc, ops, crashed>>

\* A goroutine that runs nothing.
ProcIdle ==
    [pc |-> "idle", op |-> "", acct |-> "", limits |-> ZeroLimits, jsa |-> 0,
     dl |-> ZeroLimits, jsaLimits |-> ZeroLimits, todo |-> {}, cfg |-> <<>>, err |-> NoErr,
     body |-> <<>>, reply |-> <<>>, sent |-> 0, used |-> 0, ip |-> 0, held |-> {}]

\* A message-set directory as AddMsgSet / AddObservable leave it.
ObsDir == [inf |-> TRUE, sum |-> TRUE, json |-> TRUE, state |-> TRUE]
SetDir(cfg, obsNames) ==
    [inf |-> TRUE, sum |-> TRUE, json |-> TRUE, cfg |-> cfg,
     obs |-> [o \in obsNames |-> ObsDir]]

NoDirs == [n \in {} |-> 0]

\* The store directory of a server that ran before: account A holds message set
\* S1 with observable O1.
UsedDisk ==
    [a \in Accts |-> IF a = "A"
                       THEN [n \in {S1} |-> SetDir(MsgSetConfig(S1, FileStorage, 0, 1, 1), {O1})]
                       ELSE NoDirs]

\* Store directories a server may find when it starts.
DiskInputs == { [a \in Accts |-> NoDirs], UsedDisk }

\* The state after Server.EnableJetStream(config), on store directory d.
Started(d) ==
    /\ sjs = TRUE
    /\ js = [memReserved |-> 0, storeReserved |-> 0, accounts |-> [a \in Accts |-> 0]]
    /\ jsas = <<>>
    /\ ajs = [a \in Accts |-> 0]
    /\ imports = [a \in Accts |-> {}]
    /\ disk = d
    /\ proc = [p \in Procs |-> ProcIdle]
    /\ ops = 0
    /\ crashed = FALSE

Init == Started(UsedDisk)

InitSeq == \E d \in DiskInputs : Started(d)

\* What recovery may find in place of a directory's meta files: both files with
\* valid JSON, meta.inf missing, meta.sum missing, meta.inf that is not JSON.
MetaInputs ==
    { [inf |-> TRUE, sum |-> TRUE, json |-> TRUE],
      [inf |-> FALSE, sum |-> TRUE, json |-> FALSE],
      [inf |-> TRUE, sum |-> FALSE, json |-> TRUE],
      [inf |-> TRUE, sum |-> TRUE, json |-> FALSE] }

\* An observable directory with meta files m; state: its stored state is readable.
ObsDirWith(m, state) == [inf |-> m.inf, sum |-> m.sum, json |-> m.json, state |-> state]

\* A message-set directory with meta files m, stored config cfg and obs/ directory obs.
SetDirWith(m, cfg, obs) ==
    [inf |-> m.inf, sum |-> m.sum, json |-> m.json, cfg |-> cfg, obs |-> obs]

\* Store directories of an earlier run that lost files: account A holds message
\* sets S1 (observables O1 and O2) and S2.
DamagedDisks ==
    { [a \in Accts |->
          IF a = "A"
          THEN (S1 :> SetDirWith(m1, MsgSetConfig(S1, FileStorage, 0, 1, 1),
                                 (O1 :> ObsDirWith(mo1, st1)) @@ (O2 :> ObsDirWith(mo2, TRUE))))
               @@ (S2 :> SetDirWith(m2, MsgSetConfig(S2, MemoryStorage, 2, 1, 0), NoDirs))
          ELSE NoDirs] :
      m1 \in MetaInputs, m2 \in MetaInputs, mo1 \in MetaInputs, mo2 \in MetaInputs,
      st1 \in BOOLEAN }

InitRec == \E d \in DamagedDisks : Started(d)

(***************************************************************************)
(* Quota arithmetic (caller holds the engine lock)                         *)
(***************************************************************************)

\* Dynamic limits that leave resources to other accounts.
dynamicAccountLimits_Part == Limits(1, 1, -1, -1)

\* jetStream.dynamicAccountLimits
dynamicAccountLimits == Limits(CfgMaxMemory, CfgMaxStore, -1, -1)

\* sufficientResources with the storage check first.
sufficientResources_StoreFirst(j, limits) ==
    IF j.storeReserved + limits.MaxStore > CfgMaxStore THEN ErrInsufficientStore
    ELSE IF j.memReserved + limits.MaxMemory > CfgMaxMemory THEN ErrInsufficientMem
    ELSE NoErr

\* jetStream.sufficientResources: the error returned, NoErr for nil.
sufficientResources(j, limits) ==
    IF j.memReserved + limits.MaxMemory > CfgMaxMemory THEN ErrInsufficientMem
    ELSE IF j.storeReserved + limits.MaxStore > CfgMaxStore THEN ErrInsufficientStore
    ELSE NoErr

\* reserveResources that reserves one byte more than asked.
reserveResources_OffByOne(j, limits) ==
    [j EXCEPT !.memReserved = IF limits.MaxMemory > 0 THEN @ + limits.MaxMemory + 1 ELSE @,
              !.storeReserved = IF limits.MaxStore > 0 THEN @ + limits.MaxStore ELSE @]

\* jetStream.reserveResources
reserveResources(j, limits) ==
    [j EXCEPT !.memReserved = IF limits.MaxMemory > 0 THEN @ + limits.MaxMemory ELSE @,
              !.storeReserved = IF limits.MaxStore > 0 THEN @ + limits.MaxStore ELSE @]

\* jetStream.releaseResources
releaseResources(j, limits) ==
    [j EXCEPT !.memReserved = IF limits.MaxMemory > 0 THEN @ - limits.MaxMemory ELSE @,
              !.storeReserved = IF limits.MaxStore > 0 THEN @ - limits.MaxStore ELSE @]

\* diffCheckedLimits(a, b)
diffCheckedLimits(a, b) ==
    Limits(b.MaxMemory - a.MaxMemory, b.MaxStore - a.MaxStore, 0, 0)


(***************************************************************************)
(* Message sets, observables and their directories                         *)
(***************************************************************************)

Put(f, k, v) == [x \in (DOMAIN f) \cup {k} |-> IF x = k THEN v ELSE f[x]]

\* ioutil.ReadDir: the names of dirs, sorted.
ReadDir(dirs) == SelectSeq(DirOrder, LAMBDA n : n \in DOMAIN dirs)

\* isValidName
isValidName(name) ==
    /\ name # <<>>
    /\ \A i \in 1..Len(name) : name[i] \notin {".", "*", ">"}

ErrReplicasN(n) == "replicas setting of " \o ToString(n) \o " not allowed"

\* A checkLimits without the check of config.Replicas.
checkLimits_AnyReplicas(jsa, config) ==
    IF jsa.limits.MaxMsgSets > 0 /\ Cardinality(DOMAIN jsa.msgSets) >= jsa.limits.MaxMsgSets
    THEN [err |-> ErrMaxMsgSets, config |-> config]
    ELSE IF config.MaxObservables > 0 /\ config.MaxObservables > jsa.limits.MaxObservables
    THEN [err |-> ErrMaxObservables, config |-> config]
    ELSE LET cfg == [config EXCEPT !.MaxObservables = jsa.limits.MaxObservables]
             mb == cfg.MaxBytes * cfg.Replicas
         IN  IF cfg.MaxBytes > 0 /\ cfg.Storage = MemoryStorage
                /\ jsa.memReserved + mb > jsa.limits.MaxMemory
             THEN [err |-> ErrInsufficientMem, config |-> cfg]
             ELSE IF cfg.MaxBytes > 0 /\ cfg.Storage = FileStorage
                     /\ jsa.storeReserved + mb > jsa.limits.MaxStore
             THEN [err |-> ErrInsufficientStore, config |-> cfg]
             ELSE [err |-> NoErr, config |-> cfg]

\* A checkLimits that checks config.Replicas before the number of message sets.
checkLimits_ReplicasFirst(jsa, config) ==
    IF config.Replicas # 1
    THEN [err |-> ErrReplicasN(config.Replicas), config |-> config]
    ELSE checkLimits_AnyReplicas(jsa, config)

\* jsAccount.checkLimits: the error returned and the caller's config as it leaves it.
checkLimits(jsa, config) ==
    IF jsa.limits.MaxMsgSets > 0 /\ Cardinality(DOMAIN jsa.msgSets) >= jsa.limits.MaxMsgSets
    THEN [err |-> ErrMaxMsgSets, config |-> config]
    ELSE IF config.Replicas # 1
    THEN [err |-> ErrReplicasN(config.Replicas), config |-> config]
    ELSE IF config.MaxObservables > 0 /\ config.MaxObservables > jsa.limits.MaxObservables
    THEN [err |-> ErrMaxObservables, config |-> config]
    ELSE LET cfg == [config EXCEPT !.MaxObservables = jsa.limits.MaxObservables]
             mb == cfg.MaxBytes * cfg.Replicas
         IN  IF cfg.MaxBytes > 0 /\ cfg.Storage = MemoryStorage
                /\ jsa.memReserved + mb > jsa.limits.MaxMemory
             THEN [err |-> ErrInsufficientMem, config |-> cfg]
             ELSE IF cfg.MaxBytes > 0 /\ cfg.Storage = FileStorage
                     /\ jsa.storeReserved + mb > jsa.limits.MaxStore
             THEN [err |-> ErrInsufficientStore, config |-> cfg]
             ELSE [err |-> NoErr, config |-> cfg]

\* A message set handle as a create leaves it.
NewMsgSet(config) ==
    [config |-> config, stopped |-> FALSE, storeStopped |-> FALSE, obs |-> NoDirs]

\* The directory of a message set after its meta files are written.
WriteSetMeta(dirs, config) ==
    IF config.Name \in DOMAIN dirs
    THEN [dirs EXCEPT ![config.Name] =
              [@ EXCEPT !.inf = TRUE, !.sum = TRUE, !.json = TRUE, !.cfg = config]]
    ELSE Put(dirs, config.Name, SetDir(config, {}))

\* Account.AddMsgSet(config) on the account whose Account.js is id:
\* the error, and the jsAccount objects and the disk as it leaves them.
AddMsgSet(jsasV, diskV, id, a, config) ==
    LET same == [err |-> NoErr, jsas |-> jsasV, disk |-> diskV]
        chk == checkLimits(jsasV[id], config)
    IN  IF id = 0 THEN [same EXCEPT !.err = ErrNotEnabledForAccount]
        ELSE IF ~isValidName(config.Name) THEN [same EXCEPT !.err = ErrInvalidName]
        ELSE IF config.Name \in DOMAIN jsasV[id].msgSets
        THEN [same EXCEPT !.err = ErrMsgSetExists]
        ELSE IF chk.err # NoErr THEN [same EXCEPT !.err = chk.err]
        ELSE [err |-> NoErr,
              jsas |-> [jsasV EXCEPT ![id].msgSets = Put(@, config.Name, NewMsgSet(chk.config))],
              disk |-> [diskV EXCEPT ![a] = WriteSetMeta(@, chk.config)]]

\* MsgSet.AddObservable(config) on message set name of jsAccount id.
AddObservable(jsasV, diskV, id, name, o) ==
    LET a == jsasV[id].account IN
    IF o \in DOMAIN jsasV[id].msgSets[name].obs
    THEN [err |-> ErrObservableExists, jsas |-> jsasV, disk |-> diskV]
    ELSE [err |-> NoErr,
          jsas |-> [jsasV EXCEPT ![id].msgSets[name].obs = Put(@, o, [restored |-> FALSE])],
          disk |-> IF name \in DOMAIN diskV[a]
                   THEN [diskV EXCEPT ![a][name].obs = Put(@, o, ObsDir)]
                   ELSE diskV]

\* MsgSet.stop(delete) of every message set of jsAccount id: the sets and their
\* stores are stopped; with delete the files are erased as well.
stopAll(jsasV, diskV, id, delete) ==
    LET a == jsasV[id].account
        names == DOMAIN jsasV[id].msgSets
    IN  [jsas |-> [jsasV EXCEPT ![id].msgSets =
                       [n \in names |-> [@[n] EXCEPT !.stopped = TRUE, !.storeStopped = TRUE]]],
         disk |-> IF delete
                  THEN [diskV EXCEPT ![a] = [n \in (DOMAIN @) \ names |-> @[n]]]
                  ELSE diskV]

\* jsAccount.delete that calls ms.stop(true).
jsaDelete_Erase(jsasV, diskV, id) == stopAll(jsasV, diskV, id, TRUE)

\* jsAccount.delete
jsaDelete(jsasV, diskV, id) == stopAll(jsasV, diskV, id, FALSE)

\* jsAccount.flushState: Store.Stop() of every message set.
flushState(jsasV, id) ==
    [jsasV EXCEPT ![id].msgSets =
        [n \in DOMAIN @ |-> [@[n] EXCEPT !.storeStopped = TRUE]]]


(***************************************************************************)
(* Recovery (Account.EnableJetStream, "Restore any state here")            *)
(***************************************************************************)

\* Recovery that looks for meta.inf only.
MetaMissing_InfOnly(d) == ~d.inf \/ ~d.json

\* Recovery skips a directory whose meta.inf or meta.sum is missing or whose
\* meta.inf is not JSON.
MetaMissing(d) == ~d.inf \/ ~d.sum \/ ~d.json

RECURSIVE recoverObservables(_, _, _, _, _, _)
\* The loop over the directories ofis of <set dir fi>/obs, for message set name.
recoverObservables(jsasV, diskV, id, fi, name, ofis) ==
    IF ofis = <<>> THEN [jsas |-> jsasV, disk |-> diskV]
    ELSE LET o == Head(ofis)
             d == diskV[jsasV[id].account][fi].obs[o]
             r == AddObservable(jsasV, diskV, id, name, o)
         IN  IF MetaMissing(d) \/ r.err # NoErr
             THEN recoverObservables(jsasV, diskV, id, fi, name, Tail(ofis))
             ELSE recoverObservables(
                      \* obs.readStoredState(): an error is logged, nothing else
                      [r.jsas EXCEPT ![id].msgSets[name].obs[o].restored = d.state],
                      r.disk, id, fi, name, Tail(ofis))

RECURSIVE recoverMsgSets(_, _, _, _, _)
\* The loop over the directories fis of the account's store directory; id is the
\* account's Account.js, which a.AddMsgSet adds to.  When AddMsgSet fails, mset is
\* nil and mset.Stats() dereferences it: the loop ends in a panic.
recoverMsgSets(jsasV, diskV, id, a, fis) ==
    IF fis = <<>> THEN [jsas |-> jsasV, disk |-> diskV, panic |-> FALSE]
    ELSE LET fi == Head(fis)
             d == diskV[a][fi]
             r == AddMsgSet(jsasV, diskV, id, a, d.cfg)
             ro == recoverObservables(r.jsas, r.disk, id, fi, d.cfg.Name, ReadDir(d.obs))
         IN  IF MetaMissing(d) THEN recoverMsgSets(jsasV, diskV, id, a, Tail(fis))
             ELSE IF r.err # NoErr THEN [jsas |-> jsasV, disk |-> diskV, panic |-> TRUE]
             ELSE recoverMsgSets(ro.jsas, ro.disk, id, a, Tail(fis))

(***************************************************************************)
(* Operations.  A goroutine is idle, inside an operation (pc names the     *)
(* lock region it runs next) or done (the operation returned err).         *)
(***************************************************************************)

Goto(p, r, label) == proc' = [proc EXCEPT ![p] = [r EXCEPT !.pc = label]]
Return(p, r, e) ==
    proc' = [proc EXCEPT ![p] = [ProcIdle EXCEPT !.pc = "done", !.op = r.op, !.acct = r.acct,
                                                 !.jsa = r.jsa, !.err = e]]

\* The server runs and no result waits to be taken.
Running == ~crashed /\ \A q \in Procs : proc[q].pc # "done"

\* Goroutine p may start operation number n or less: goroutines are interchangeable,
\* so an operation is started by the first idle one.
ProcOrder == <<"p1", "p2">>
CanStart(p, n) ==
    /\ Running
    /\ ops < n
    /\ proc[p].pc = "idle"
    /\ \A i, k \in 1..Len(ProcOrder) : ProcOrder[k] = p /\ i < k => proc[ProcOrder[i]].pc # "idle"

\* The limits a *JetStreamAccountLimits argument stands for (nil: dynamic limits).
ArgLimits(l) == IF l = <<>> THEN dynamicAccountLimits ELSE l[1]

NewJsAccount(a, limits) ==
    [account |-> a, limits |-> limits, memReserved |-> 0, memUsed |-> 0,
     storeReserved |-> 0, storeUsed |-> 0, msgSets |-> NoDirs]

\* Account.EnableJetStream, up to the engine lock.
EnableJetStream(p, a, l, n) ==
    /\ CanStart(p, n)
    /\ LET r == [proc[p] EXCEPT !.op = "Enable", !.acct = a, !.limits = ArgLimits(l)]
       IN  IF ~sjs THEN Return(p, r, ErrNotEnabled) ELSE Goto(p, r, "enLocked")
    /\ ops' = ops + 1
    /\ UNCHANGED <<sjs, js, jsas, ajs, imports, disk, crashed>>

\* EnableLocked without the check that the account is registered already.
EnableLocked_NoDuplicateCheck(p) ==
    LET r == proc[p]
        e == sufficientResources(js, r.limits)
        id == Len(jsas) + 1
    IN  /\ Running /\ r.pc = "enLocked"
        /\ IF e # NoErr
           THEN /\ Return(p, r, e)
                /\ UNCHANGED <<js, jsas, crashed>>
           ELSE /\ jsas' = Append(jsas, NewJsAccount(r.acct, r.limits))
                /\ js' = reserveResources([js EXCEPT !.accounts[r.acct] = id], r.limits)
                /\ Goto(p, [r EXCEPT !.jsa = id], "enStamp")
                /\ UNCHANGED crashed
        /\ UNCHANGED <<ops, sjs, ajs, imports, disk>>

\* Account.EnableJetStream under js.mu: check, register, reserve.
EnableLocked(p) ==
    LET r == proc[p]
        e == sufficientResources(js, r.limits)
        id == Len(jsas) + 1
    IN  /\ Running /\ r.pc = "enLocked"
        /\ IF e # NoErr
           THEN /\ Return(p, r, e)
                /\ UNCHANGED <<js, jsas, crashed>>
           ELSE IF js.accounts[r.acct] # 0
           THEN /\ Return(p, r, ErrAlreadyEnabled)
                /\ UNCHANGED <<js, jsas, crashed>>
           ELSE IF ~sjs
           THEN \* shutdown set js.accounts to nil: assignment to entry in nil map
                /\ Return(p, r, ErrPanic)
                /\ crashed' = TRUE
                /\ UNCHANGED <<js, jsas>>
           ELSE /\ jsas' = Append(jsas, NewJsAccount(r.acct, r.limits))
                /\ js' = reserveResources([js EXCEPT !.accounts[r.acct] = id], r.limits)
                /\ Goto(p, [r EXCEPT !.jsa = id], "enStamp")
                /\ UNCHANGED crashed
        /\ UNCHANGED <<ops, sjs, ajs, imports, disk>>

\* Account.EnableJetStream: a.js = jsa.
EnableStamp(p) ==
    /\ Running /\ proc[p].pc = "enStamp"
    /\ ajs' = [ajs EXCEPT ![proc[p].acct] = proc[p].jsa]
    /\ Goto(p, proc[p], "enImports")
    /\ UNCHANGED <<ops, sjs, js, jsas, imports, disk, crashed>>

\* Account.EnableJetStream: the service imports.
EnableImports(p) ==
    /\ Running /\ proc[p].pc = "enImports"
    /\ imports' = [imports EXCEPT ![proc[p].acct] = allJsExports]
    /\ Goto(p, proc[p], "enRecover")
    /\ UNCHANGED <<ops, sjs, js, jsas, ajs, disk, crashed>>

\* Account.EnableJetStream: recovery of the account's store directory.
EnableRecover(p) ==
    LET r == proc[p]
        rec == recoverMsgSets(jsas, disk, ajs[r.acct], r.acct, ReadDir(disk[r.acct]))
    IN  /\ Running /\ r.pc = "enRecover"
        /\ jsas' = rec.jsas
        /\ disk' = rec.disk
        /\ crashed' = rec.panic
        /\ Return(p, r, IF rec.panic THEN ErrPanic ELSE NoErr)
        /\ UNCHANGED <<ops, sjs, js, ajs, imports>>

\* Account.UpdateJetStreamLimits, up to the account lookup.
UpdateJetStreamLimits(p, a, l, n) ==
    /\ CanStart(p, n)
    /\ LET r == [proc[p] EXCEPT !.op = "Update", !.acct = a, !.limits = ArgLimits(l),
                                !.jsa = js.accounts[a]]
       IN  IF ~sjs THEN Return(p, r, ErrNotEnabled)
           ELSE IF r.jsa = 0 THEN Return(p, r, ErrNotEnabledForAccount)
           ELSE Goto(p, r, "upRead")
    /\ ops' = ops + 1
    /\ UNCHANGED <<sjs, js, jsas, ajs, imports, disk, crashed>>

\* Account.UpdateJetStreamLimits under jsa.mu: the delta and a copy of the limits.
UpdateRead(p) ==
    LET r == proc[p] IN
    /\ Running /\ r.pc = "upRead"
    /\ Goto(p, [r EXCEPT !.dl = diffCheckedLimits(jsas[r.jsa].limits, r.limits),
                         !.jsaLimits = jsas[r.jsa].limits], "upLocked")
    /\ UNCHANGED <<ops, sjs, js, jsas, ajs, imports, disk, crashed>>

\* UpdateLocked that releases the old limits before the check.
UpdateLocked_ReleaseFirst(p) ==
    LET r == proc[p]
        e == sufficientResources(js, r.dl)
    IN  /\ Running /\ r.pc = "upLocked"
        /\ IF e # NoErr
           THEN /\ Return(p, r, e)
                /\ js' = releaseResources(js, r.jsaLimits)
           ELSE /\ js' = reserveResources(releaseResources(js, r.jsaLimits), r.limits)
                /\ Goto(p, r, "upStore")
        /\ UNCHANGED <<ops, sjs, jsas, ajs, imports, disk, crashed>>

\* Account.UpdateJetStreamLimits under js.mu: check the delta, release, reserve.
UpdateLocked(p) ==
    LET r == proc[p]
        e == sufficientResources(js, r.dl)
    IN  /\ Running /\ r.pc = "upLocked"
        /\ IF e # NoErr
           THEN /\ Return(p, r, e)
                /\ UNCHANGED js
           ELSE /\ js' = reserveResources(releaseResources(js, r.jsaLimits), r.limits)
                /\ Goto(p, r, "upStore")
        /\ UNCHANGED <<ops, sjs, jsas, ajs, imports, disk, crashed>>

\* Account.UpdateJetStreamLimits under jsa.mu: jsa.limits = *limits.
UpdateStore(p) ==
    LET r == proc[p] IN
    /\ Running /\ r.pc = "upStore"
    /\ jsas' = [jsas EXCEPT ![r.jsa].limits = r.limits]
    /\ Return(p, r, NoErr)
    /\ UNCHANGED <<ops, sjs, js, ajs, imports, disk, crashed>>

\* Account.DisableJetStream: a.js = nil, then the engine.
DisableJetStream(p, a, n) ==
    /\ CanStart(p, n)
    /\ ajs' = [ajs EXCEPT ![a] = 0]
    /\ LET r == [proc[p] EXCEPT !.op = "Disable", !.acct = a]
       IN  IF ~sjs THEN Return(p, r, ErrNotEnabled) ELSE Goto(p, r, "disImports")
    /\ ops' = ops + 1
    /\ UNCHANGED <<sjs, js, jsas, imports, disk, crashed>>

\* Account.DisableJetStream: remove the service imports.
DisableImports(p) ==
    /\ Running /\ proc[p].pc = "disImports"
    /\ imports' = [imports EXCEPT ![proc[p].acct] = {}]
    /\ Goto(p, proc[p], "disLookup")
    /\ UNCHANGED <<ops, sjs, js, jsas, ajs, disk, crashed>>

\* Account.DisableJetStream: js.lookupAccount(a), and disableJetStream's nil check.
DisableLookup(p) ==
    LET r == [proc[p] EXCEPT !.jsa = js.accounts[proc[p].acct]] IN
    /\ Running /\ proc[p].pc = "disLookup"
    /\ IF r.jsa = 0 THEN Return(p, r, ErrNotEnabledForAccount) ELSE Goto(p, r, "djLocked")
    /\ UNCHANGED <<ops, sjs, js, jsas, ajs, imports, disk, crashed>>

\* What the read of jsa.limits in disableJetStream, which holds js.mu and not
\* jsa.mu, may see while UpdateJetStreamLimits stores new limits under jsa.mu.
RacyLimits(id) ==
    LET seen == {jsas[id].limits} \cup
                {proc[q].limits : q \in {x \in Procs : proc[x].pc = "upStore" /\ proc[x].jsa = id}}
    IN  {[jsas[id].limits EXCEPT !.MaxMemory = m.MaxMemory, !.MaxStore = s.MaxStore] :
            m \in seen, s \in seen}

\* disableJetStream that releases and leaves the account in the registry.
disableJetStream_KeepEntry(p) ==
    LET r == proc[p] IN
    /\ Running /\ r.pc = "djLocked"
    /\ js' = releaseResources(js, jsas[r.jsa].limits)
    /\ Goto(p, r, "djDelete")
    /\ UNCHANGED <<ops, sjs, jsas, ajs, imports, disk, crashed>>

\* disableJetStream that empties the registry.
disableJetStream_ClearRegistry(p) ==
    LET r == proc[p] IN
    /\ Running /\ r.pc = "djLocked"
    /\ \E lim \in RacyLimits(r.jsa) :
          js' = releaseResources([js EXCEPT !.accounts = [a \in Accts |-> 0]], lim)
    /\ Goto(p, r, "djDelete")
    /\ UNCHANGED <<ops, sjs, jsas, ajs, imports, disk, crashed>>

\* jetStream.disableJetStream under js.mu: unregister, release.
disableJetStream(p) ==
    LET r == proc[p] IN
    /\ Running /\ r.pc = "djLocked"
    /\ \E lim \in RacyLimits(r.jsa) :
          js' = releaseResources([js EXCEPT !.accounts[jsas[r.jsa].account] = 0], lim)
    /\ Goto(p, r, "djDelete")
    /\ UNCHANGED <<ops, sjs, jsas, ajs, imports, disk, crashed>>

\* jetStream.disableJetStream: jsa.delete().
disableDelete(p) ==
    LET r == proc[p]
        d == jsaDelete(jsas, disk, r.jsa)
    IN  /\ Running /\ r.pc = "djDelete"
        /\ jsas' = d.jsas
        /\ disk' = d.disk
        /\ IF r.op = "Shutdown" THEN Goto(p, r, "shLoop") ELSE Return(p, r, NoErr)
        /\ UNCHANGED <<ops, sjs, js, ajs, imports, crashed>>

\* Server.shutdownJetStream: collect the accounts.  Server.Shutdown runs it once.
shutdownJetStream(p, n) ==
    /\ CanStart(p, n)
    /\ \A q \in Procs : proc[q].op # "Shutdown"
    /\ LET r == [proc[p] EXCEPT !.op = "Shutdown",
                                !.todo = {js.accounts[a] : a \in Accts} \ {0}]
       IN  IF ~sjs THEN Return(p, r, NoErr) ELSE Goto(p, r, "shLoop")
    /\ ops' = ops + 1
    /\ UNCHANGED <<sjs, js, jsas, ajs, imports, disk, crashed>>

\* Server.shutdownJetStream: jsa.flushState() of the next account collected.
ShutdownFlush(p) ==
    LET r == proc[p] IN
    /\ Running /\ r.pc = "shLoop"
    /\ \E id \in r.todo :
          /\ jsas' = flushState(jsas, id)
          /\ Goto(p, [r EXCEPT !.jsa = id, !.todo = @ \ {id}], "djLocked")
    /\ UNCHANGED <<ops, sjs, js, ajs, imports, disk, crashed>>

\* Server.shutdownJetStream: s.js.accounts = nil, s.js = nil.
ShutdownFinish(p) ==
    LET r == proc[p] IN
    /\ Running /\ r.pc = "shLoop"
    /\ r.todo = {}
    /\ sjs' = FALSE
    /\ js' = [js EXCEPT !.accounts = [a \in Accts |-> 0]]
    /\ Return(p, r, NoErr)
    /\ UNCHANGED <<ops, jsas, ajs, imports, disk, crashed>>

\* The caller takes the result; the goroutine is free again.
Returned(p) ==
    /\ ~crashed /\ proc[p].pc = "done"
    /\ proc' = [proc EXCEPT ![p] = ProcIdle]
    /\ UNCHANGED <<ops, sjs, js, jsas, ajs, imports, disk, crashed>>

\* Account.AddMsgSet(config)
CreateMsgSet(p, a, config, n) ==
    LET r == AddMsgSet(jsas, disk, ajs[a], a, config) IN
    /\ CanStart(p, n)
    /\ jsas' = r.jsas
    /\ disk' = r.disk
    /\ Return(p, [proc[p] EXCEPT !.op = "AddMsgSet", !.acct = a, !.cfg = <<config>>], r.err)
    /\ ops' = ops + 1
    /\ UNCHANGED <<sjs, js, ajs, imports, crashed>>

\* Account.LookupMsgSet(name), then MsgSet.AddObservable(config)
CreateObservable(p, a, name, o, n) ==
    LET id == ajs[a]
        r == AddObservable(jsas, disk, id, name, o)
        me == [proc[p] EXCEPT !.op = "AddObservable", !.acct = a]
    IN  /\ CanStart(p, n)
        /\ IF id = 0
           THEN Return(p, me, ErrNotEnabled) /\ UNCHANGED <<jsas, disk>>
           ELSE IF name \notin DOMAIN jsas[id].msgSets
           THEN Return(p, me, ErrMsgSetNotFound) /\ UNCHANGED <<jsas, disk>>
           ELSE Return(p, me, r.err) /\ jsas' = r.jsas /\ disk' = r.disk
        /\ ops' = ops + 1
        /\ UNCHANGED <<sjs, js, ajs, imports, crashed>>

(***************************************************************************)
(* Request handlers.  A request is the handler's subject and a body; the   *)
(* handler checks c.acc.JetStreamEnabled() and then serves the request.    *)
(* A reply is <<"text", s>> or <<"json", document>>.                        *)
(***************************************************************************)

OK == "+OK"
ErrPrefix == "-ERR"
JetStreamNotEnabled == "-ERR 'jetstream not enabled for account'"
JetStreamBadRequest == "-ERR 'bad request'"
ErrObservableNotFound == "observable not found"

Text(t) == <<"text", t>>
Json(doc) == <<"json", doc>>

\* fmt.Sprintf("%s %v", ErrPrefix, err) and fmt.Sprintf("%s '%v'", ErrPrefix, err)
ErrReply(e) == Text(ErrPrefix \o " " \o e)
ErrReplyQuoted(e) == Text(ErrPrefix \o " '" \o e \o "'")

\* The subjects served after the JetStreamEnabled check.
Handlers ==
    { "INFO", "MSGSET.CREATE", "MSGSETS", "MSGSET.INFO", "MSGSET.DELETE", "MSGSET.PURGE",
      "MSGSET.MSG.DELETE", "OBSERVABLE.CREATE", "OBSERVABLES", "OBSERVABLE.INFO",
      "OBSERVABLE.DELETE" }

\* A split at the first " " only, as strings.SplitN(s, " ", 2).
Split_FirstSpace(s) ==
    IF \A i \in 1..Len(s) : s[i] # " " THEN <<s>>
    ELSE LET k == CHOOSE i \in 1..Len(s) : s[i] = " " /\ \A j \in 1..(i - 1) : s[j] # " "
         IN  <<SubSeq(s, 1, k - 1), SubSeq(s, k + 1, Len(s))>>

RECURSIVE Split(_)
\* strings.Split(s, " ")
Split(s) ==
    IF \A i \in 1..Len(s) : s[i] # " " THEN <<s>>
    ELSE LET k == CHOOSE i \in 1..Len(s) : s[i] = " " /\ \A j \in 1..(i - 1) : s[j] # " "
         IN  <<SubSeq(s, 1, k - 1)>> \o Split(SubSeq(s, k + 1, Len(s)))

Digits == <<"0", "1", "2", "3", "4", "5", "6", "7", "8", "9">>

RECURSIVE AtoiDigits(_)
AtoiDigits(t) ==
    IF t = <<>> THEN 0
    ELSE 10 * AtoiDigits(SubSeq(t, 1, Len(t) - 1))
         + (CHOOSE d \in 0..9 : Digits[d + 1] = t[Len(t)])

\* seq, _ := strconv.Atoi(tok): 0 when tok is not a number.
Atoi(t) ==
    IF t # <<>> /\ \A i \in 1..Len(t) : \E d \in 1..10 : Digits[d] = t[i]
    THEN AtoiDigits(t) ELSE 0

\* A lookup that reports a missing message set as 'jetstream not enabled'.
LookupMsgSet_OneError(id, name) ==
    IF id = 0 \/ name \notin DOMAIN jsas[id].msgSets THEN ErrNotEnabled ELSE NoErr

\* Account.LookupMsgSet(name): its error.
LookupMsgSet(id, name) ==
    IF id = 0 THEN ErrNotEnabled
    ELSE IF name \notin DOMAIN jsas[id].msgSets THEN ErrMsgSetNotFound
    ELSE NoErr

\* MsgSet.Delete(): the set is stopped, leaves the registry and its files are erased.
msetDelete(jsasV, diskV, id, name) ==
    LET a == jsasV[id].account IN
    [jsas |-> [jsasV EXCEPT ![id].msgSets = [n \in (DOMAIN @) \ {name} |-> @[n]]],
     disk |-> [diskV EXCEPT ![a] = [n \in (DOMAIN @) \ {name} |-> @[n]]]]

\* Observable.Delete(): the observable leaves its set and its files are erased.
obsDelete(jsasV, diskV, id, name, o) ==
    LET a == jsasV[id].account IN
    [jsas |-> [jsasV EXCEPT ![id].msgSets[name].obs = [x \in (DOMAIN @) \ {o} |-> @[x]]],
     disk |-> IF name \in DOMAIN diskV[a]
              THEN [diskV EXCEPT ![a][name].obs = [x \in (DOMAIN @) \ {o} |-> @[x]]]
              ELSE diskV]

\* MsgSet.EraseMsg(seq): no message is stored in a set of this model.
EraseMsg(id, name, seq) == FALSE

\* A handler that returns without a reply.
Respond_Silent(p, r, response) ==
    proc' = [proc EXCEPT ![p] = [ProcIdle EXCEPT !.pc = "done", !.op = r.op, !.acct = r.acct,
                                                 !.body = r.body]]

\* s.sendInternalAccountMsg(c.acc, reply, response), and the handler returns:
\* sent counts the replies published for the request.
Respond(p, r, response) ==
    proc' = [proc EXCEPT ![p] = [ProcIdle EXCEPT !.pc = "done", !.op = r.op, !.acct = r.acct,
                                                 !.body = r.body, !.reply = response,
                                                 !.sent = r.sent + 1]]

\* isJsEnabledRequest
isJsEnabledRequest(p, a, n) ==
    LET me == [proc[p] EXCEPT !.op = "ENABLED", !.acct = a] IN
    /\ CanStart(p, n)
    /\ IF ajs[a] # 0 THEN Respond(p, me, Text(OK))
                     ELSE Respond(p, me, Text(JetStreamNotEnabled))
    /\ ops' = ops + 1
    /\ UNCHANGED <<sjs, js, jsas, ajs, imports, disk, crashed>>

\* A handler head without the JetStreamEnabled check.
jsRequest_NoEnabledCheck(p, a, h, body, n) ==
    LET me == [proc[p] EXCEPT !.op = h, !.acct = a, !.body = body] IN
    /\ CanStart(p, n)
    /\ Goto(p, me, "hServe")
    /\ ops' = ops + 1
    /\ UNCHANGED <<sjs, js, jsas, ajs, imports, disk, crashed>>

\* The head of every other handler: if !c.acc.JetStreamEnabled() { reply; return }
jsRequest(p, a, h, body, n) ==
    LET me == [proc[p] EXCEPT !.op = h, !.acct = a, !.body = body] IN
    /\ CanStart(p, n)
    /\ IF ajs[a] = 0 THEN Respond(p, me, Text(JetStreamNotEnabled))
                     ELSE Goto(p, me, "hServe")
    /\ ops' = ops + 1
    /\ UNCHANGED <<sjs, js, jsas, ajs, imports, disk, crashed>>

\* A handler at its body.
Serving(p, h) == Running /\ proc[p].pc = "hServe" /\ proc[p].op = h

\* A usage report that gives the limit on message sets as their number.
JetStreamUsage_MaxMsgSets(id) ==
    IF id = 0 THEN [Memory |-> 0, Store |-> 0, MsgSets |-> 0, Limits |-> ZeroLimits]
    ELSE [Memory |-> jsas[id].memUsed, Store |-> jsas[id].storeUsed,
          MsgSets |-> jsas[id].limits.MaxMsgSets, Limits |-> jsas[id].limits]

\* Account.JetStreamUsage
JetStreamUsage(id) ==
    IF id = 0 THEN [Memory |-> 0, Store |-> 0, MsgSets |-> 0, Limits |-> ZeroLimits]
    ELSE [Memory |-> jsas[id].memUsed, Store |-> jsas[id].storeUsed,
          MsgSets |-> Cardinality(DOMAIN jsas[id].msgSets), Limits |-> jsas[id].limits]

\* jsAccountInfoRequest
jsAccountInfoRequest(p) ==
    /\ Serving(p, "INFO")
    /\ Respond(p, proc[p], Json(JetStreamUsage(ajs[proc[p].acct])))
    /\ UNCHANGED <<ops, sjs, js, jsas, ajs, imports, disk, crashed>>

\* jsCreateMsgSetRequest
jsCreateMsgSetRequest(p) ==
    LET r == proc[p]
        add == AddMsgSet(jsas, disk, ajs[r.acct], r.acct, r.body.cfg)
    IN  /\ Serving(p, "MSGSET.CREATE")
        /\ IF ~r.body.valid
           THEN Respond(p, r, Text(JetStreamBadRequest)) /\ UNCHANGED <<jsas, disk>>
           ELSE /\ Respond(p, r, IF add.err = NoErr THEN Text(OK) ELSE ErrReply(add.err))
                /\ jsas' = add.jsas
                /\ disk' = add.disk
        /\ UNCHANGED <<ops, sjs, js, ajs, imports, crashed>>

\* jsMsgSetsRequest
jsMsgSetsRequest(p) ==
    LET id == ajs[proc[p].acct] IN
    /\ Serving(p, "MSGSETS")
    /\ Respond(p, proc[p], Json(IF id = 0 THEN {} ELSE DOMAIN jsas[id].msgSets))
    /\ UNCHANGED <<ops, sjs, js, jsas, ajs, imports, disk, crashed>>

\* jsMsgSetInfoRequest
jsMsgSetInfoRequest(p) ==
    LET r == proc[p]
        id == ajs[r.acct]
        e == LookupMsgSet(id, r.body)
    IN  /\ Serving(p, "MSGSET.INFO")
        /\ IF Len(r.body) = 0 THEN Respond(p, r, Text(JetStreamBadRequest))
           ELSE IF e # NoErr THEN Respond(p, r, ErrReplyQuoted(e))
           ELSE Respond(p, r, Json([Stats |-> [Msgs |-> 0,
                                               Observables |->
                                                   Cardinality(DOMAIN jsas[id].msgSets[r.body].obs)],
                                    Config |-> jsas[id].msgSets[r.body].config]))
        /\ UNCHANGED <<ops, sjs, js, jsas, ajs, imports, disk, crashed>>

\* jsMsgSetDeleteRequest
jsMsgSetDeleteRequest(p) ==
    LET r == proc[p]
        id == ajs[r.acct]
        e == LookupMsgSet(id, r.body)
        del == msetDelete(jsas, disk, id, r.body)
    IN  /\ Serving(p, "MSGSET.DELETE")
        /\ IF Len(r.body) = 0
           THEN Respond(p, r, Text(JetStreamBadRequest)) /\ UNCHANGED <<jsas, disk>>
           ELSE IF e # NoErr
           THEN Respond(p, r, ErrReply(e)) /\ UNCHANGED <<jsas, disk>>
           ELSE Respond(p, r, Text(OK)) /\ jsas' = del.jsas /\ disk' = del.disk
        /\ UNCHANGED <<ops, sjs, js, ajs, imports, crashed>>

\* jsMsgDeleteRequest
jsMsgDeleteRequest(p) ==
    LET r == proc[p]
        id == ajs[r.acct]
        args == Split(r.body)
        name == args[1]
        seq == Atoi(args[2])
        e == LookupMsgSet(id, name)
    IN  /\ Serving(p, "MSGSET.MSG.DELETE")
        /\ IF Len(args) # 2 THEN Respond(p, r, Text(JetStreamBadRequest))
           ELSE IF e # NoErr THEN Respond(p, r, ErrReply(e))
           ELSE IF ~EraseMsg(id, name, seq)
           THEN Respond(p, r, Text(ErrPrefix \o " sequence [" \o ToString(seq) \o "] not found"))
           ELSE Respond(p, r, Text(OK))
        /\ UNCHANGED <<ops, sjs, js, jsas, ajs, imports, disk, crashed>>

\* jsMsgSetPurgeRequest
jsMsgSetPurgeRequest(p) ==
    LET r == proc[p]
        e == LookupMsgSet(ajs[r.acct], r.body)
    IN  /\ Serving(p, "MSGSET.PURGE")
        /\ IF Len(r.body) = 0 THEN Respond(p, r, Text(JetStreamBadRequest))
           ELSE IF e # NoErr THEN Respond(p, r, ErrReply(e))
           ELSE Respond(p, r, Text(OK))
        /\ UNCHANGED <<ops, sjs, js, jsas, ajs, imports, disk, crashed>>

\* jsCreateObservableRequest
jsCreateObservableRequest(p) ==
    LET r == proc[p]
        id == ajs[r.acct]
        e == LookupMsgSet(id, r.body.set)
        add == AddObservable(jsas, disk, id, r.body.set, r.body.obs)
    IN  /\ Serving(p, "OBSERVABLE.CREATE")
        /\ IF ~r.body.valid
           THEN Respond(p, r, Text(JetStreamBadRequest)) /\ UNCHANGED <<jsas, disk>>
           ELSE IF e # NoErr
           THEN Respond(p, r, ErrReply(e)) /\ UNCHANGED <<jsas, disk>>
           ELSE /\ Respond(p, r, IF add.err = NoErr THEN Text(OK) ELSE ErrReplyQuoted(add.err))
                /\ jsas' = add.jsas
                /\ disk' = add.disk
        /\ UNCHANGED <<ops, sjs, js, ajs, imports, crashed>>

\* jsObservablesRequest
jsObservablesRequest(p) ==
    LET r == proc[p]
        id == ajs[r.acct]
        e == LookupMsgSet(id, r.body)
    IN  /\ Serving(p, "OBSERVABLES")
        /\ IF Len(r.body) = 0 THEN Respond(p, r, Text(JetStreamBadRequest))
           ELSE IF e # NoErr THEN Respond(p, r, ErrReply(e))
           ELSE Respond(p, r, Json(DOMAIN jsas[id].msgSets[r.body].obs))
        /\ UNCHANGED <<ops, sjs, js, jsas, ajs, imports, disk, crashed>>

\* jsObservableInfoRequest
jsObservableInfoRequest(p) ==
    LET r == proc[p]
        id == ajs[r.acct]
        names == Split(r.body)
        e == LookupMsgSet(id, names[1])
    IN  /\ Serving(p, "OBSERVABLE.INFO")
        /\ IF Len(r.body) = 0 \/ Len(names) # 2 THEN Respond(p, r, Text(JetStreamBadRequest))
           ELSE IF e # NoErr THEN Respond(p, r, ErrReply(e))
           ELSE IF names[2] \notin DOMAIN jsas[id].msgSets[names[1]].obs
           THEN Respond(p, r, ErrReply(ErrObservableNotFound))
           ELSE Respond(p, r, Json([Name |-> names[2], MsgSet |-> names[1]]))
        /\ UNCHANGED <<ops, sjs, js, jsas, ajs, imports, disk, crashed>>

\* jsObservableDeleteRequest
jsObservableDeleteRequest(p) ==
    LET r == proc[p]
        id == ajs[r.acct]
        names == Split(r.body)
        e == LookupMsgSet(id, names[1])
        del == obsDelete(jsas, disk, id, names[1], names[2])
    IN  /\ Serving(p, "OBSERVABLE.DELETE")
        /\ IF Len(r.body) = 0 \/ Len(names) # 2
           THEN Respond(p, r, Text(JetStreamBadRequest)) /\ UNCHANGED <<jsas, disk>>
           ELSE IF e # NoErr
           THEN Respond(p, r, ErrReply(e)) /\ UNCHANGED <<jsas, disk>>
           ELSE IF names[2] \notin DOMAIN jsas[id].msgSets[names[1]].obs
           THEN Respond(p, r, ErrReply(ErrObservableNotFound)) /\ UNCHANGED <<jsas, disk>>
           ELSE Respond(p, r, Text(OK)) /\ jsas' = del.jsas /\ disk' = del.disk
        /\ UNCHANGED <<ops, sjs, js, ajs, imports, crashed>>

(***************************************************************************)
(* Usage accounting, called by the store layer with a jsAccount it holds.  *)
(***************************************************************************)

\* Signed addition at the width of the counters.
Wrap(x) == ((x + 2 ^ (UsedBits - 1)) % (2 ^ UsedBits)) - 2 ^ (UsedBits - 1)

\* jsa.mu is held by a goroutine inside updateUsage.
UsageLocked(id) == \E q \in Procs : proc[q].pc = "uuAdd" /\ proc[q].jsa = id

\* An updateUsage that does not take jsa.mu.
updateUsage_NoLock(p, id, storeType, delta, n) ==
    /\ CanStart(p, n)
    /\ id \in 1..Len(jsas)
    /\ Goto(p, [proc[p] EXCEPT !.op = "updateUsage", !.jsa = id, !.body = <<storeType, delta>>,
                               !.used = IF storeType = MemoryStorage THEN jsas[id].memUsed
                                        ELSE jsas[id].storeUsed],
            "uuAdd")
    /\ ops' = ops + 1
    /\ UNCHANGED <<sjs, js, jsas, ajs, imports, disk, crashed>>

\* jsAccount.updateUsage: jsa.mu.Lock() and the load of the counter of storeType.
updateUsage(p, id, storeType, delta, n) ==
    /\ CanStart(p, n)
    /\ id \in 1..Len(jsas)
    /\ ~UsageLocked(id)
    /\ Goto(p, [proc[p] EXCEPT !.op = "updateUsage", !.jsa = id, !.body = <<storeType, delta>>,
                               !.used = IF storeType = MemoryStorage THEN jsas[id].memUsed
                                        ELSE jsas[id].storeUsed],
            "uuAdd")
    /\ ops' = ops + 1
    /\ UNCHANGED <<sjs, js, jsas, ajs, imports, disk, crashed>>

\* jsAccount.updateUsage: the store of counter + delta and jsa.mu.Unlock().
UsageAdd(p) ==
    LET r == proc[p] IN
    /\ Running /\ r.pc = "uuAdd"
    /\ jsas' = IF r.body[1] = MemoryStorage
               THEN [jsas EXCEPT ![r.jsa].memUsed = Wrap(r.used + r.body[2])]
               ELSE [jsas EXCEPT ![r.jsa].storeUsed = Wrap(r.used + r.body[2])]
    /\ proc' = [proc EXCEPT ![p] = [ProcIdle EXCEPT !.pc = "done", !.op = r.op, !.jsa = r.jsa,
                                                    !.body = r.body, !.used = r.used]]
    /\ UNCHANGED <<ops, sjs, js, ajs, imports, disk, crashed>>

(***************************************************************************)
(* Set-up that fails.  Server.EnableJetStream installs s.js and then       *)
(* prepares the store directory, the subscriptions and the exports; the    *)
(* account's EnableJetStream installs its service imports after it has     *)
(* registered and stamped the account.  Each of these steps can fail.      *)
(***************************************************************************)

ErrNotStandAlone == "jetstream restricted to single server mode"
ErrJsAlreadyEnabled == "jetstream already enabled"
ErrMkdir == "could not create storage directory"
ErrNotDir == "storage directory is not a directory"
ErrNotWritable == "storage directory is not writable"
ErrSubscriptions == "Error setting up internal jetstream subscriptions"
ErrExports == "Error setting up jetstream service exports"
ErrImports == "Error setting up jetstream service imports for account"

\* What the set-up after the installation of s.js may return.
SetupErrors == { ErrMkdir, ErrNotDir, ErrNotWritable, ErrSubscriptions, ErrExports }

\* A server on which JetStream has not been enabled, on store directory d.
NotStarted(d) ==
    /\ sjs = FALSE
    /\ js = [memReserved |-> 0, storeReserved |-> 0, accounts |-> [a \in Accts |-> 0]]
    /\ jsas = <<>>
    /\ ajs = [a \in Accts |-> 0]
    /\ imports = [a \in Accts |-> {}]
    /\ disk = d
    /\ proc = [p \in Procs |-> ProcIdle]
    /\ ops = 0
    /\ crashed = FALSE

\* Server.EnableJetStream under s.mu: the mode and s.js are checked, s.js is set.
ServerEnableJetStream(p, standAlone, n) ==
    LET r == [proc[p] EXCEPT !.op = "ServerEnable"] IN
    /\ CanStart(p, n)
    /\ IF ~standAlone
       THEN Return(p, r, ErrNotStandAlone) /\ UNCHANGED <<sjs, js>>
       ELSE IF sjs
       THEN Return(p, r, ErrJsAlreadyEnabled) /\ UNCHANGED <<sjs, js>>
       ELSE /\ sjs' = TRUE
            /\ js' = [memReserved |-> 0, storeReserved |-> 0,
                      accounts |-> [a \in Accts |-> 0]]
            /\ Goto(p, r, "srvSetup")
    /\ ops' = ops + 1
    /\ UNCHANGED <<jsas, ajs, imports, disk, crashed>>

\* Server.EnableJetStream after s.mu: store directory, subscriptions, exports.
ServerSetup(p) ==
    /\ Running /\ proc[p].pc = "srvSetup"
    /\ \E e \in SetupErrors \cup {NoErr} : Return(p, proc[p], e)
    /\ UNCHANGED <<ops, sjs, js, jsas, ajs, imports, disk, crashed>>

\* Account.EnableJetStream: AddServiceImport fails on the import number k + 1.
EnableImportsFail(p) ==
    /\ Running /\ proc[p].pc = "enImports"
    /\ \E k \in 0..1 : imports' = [imports EXCEPT ![proc[p].acct] = @ \cup 1..k]
    /\ Return(p, proc[p], ErrImports)
    /\ UNCHANGED <<ops, sjs, js, jsas, ajs, disk, crashed>>

(***************************************************************************)
(* Locking.  The lock program of an operation is the sequence of its       *)
(* mutex calls and of its accesses to the guarded fields, in program       *)
(* order: <<"lock" | "rlock" | "unlock" | "runlock", object>> and          *)
(* <<"read" | "write", object, field>>.  The objects are the engine "js"   *)
(* the server "s" and the jsAccount of account a, JsaOf(a); each has its   *)
(* own mu.                                                                 *)
(***************************************************************************)

JsaOf(a) == "jsa." \o a

\* js.lookupAccount(a)
LookupAccountLocks ==
    << <<"rlock", "js">>, <<"read", "js", "accounts">>, <<"runlock", "js">> >>

\* sufficientResources and the ledger update of the caller, js.mu held by the caller.
LedgerLocks ==
    << <<"read", "js", "memReserved">>, <<"read", "js", "storeReserved">>,
       <<"write", "js", "memReserved">>, <<"write", "js", "storeReserved">> >>

\* Account.AddMsgSet as recovery calls it: admission and insertion under jsa.mu.
AddMsgSetLocks(a) ==
    << <<"lock", JsaOf(a)>>, <<"read", JsaOf(a), "msgSets">>, <<"read", JsaOf(a), "limits">>,
       <<"write", JsaOf(a), "msgSets">>, <<"unlock", JsaOf(a)>> >>

\* Account.EnableJetStream with nil limits, up to the recovery of one message set.
EnableLocks(a) ==
    << <<"rlock", "js">>, <<"runlock", "js">>,
       <<"lock", "js">>, <<"read", "js", "accounts">>, <<"write", "js", "accounts">> >>
        \o LedgerLocks \o << <<"unlock", "js">> >> \o AddMsgSetLocks(a)

\* Account.UpdateJetStreamLimits
UpdateLocks(a) ==
    LookupAccountLocks
        \o << <<"lock", JsaOf(a)>>, <<"read", JsaOf(a), "limits">>, <<"unlock", JsaOf(a)>>,
              <<"lock", "js">> >>
        \o LedgerLocks
        \o << <<"unlock", "js">>,
              <<"lock", JsaOf(a)>>, <<"write", JsaOf(a), "limits">>, <<"unlock", JsaOf(a)>> >>

\* jetStream.disableJetStream(jsa) and jsa.delete()
disableLocks(a) ==
    << <<"lock", "js">>, <<"write", "js", "accounts">>, <<"read", JsaOf(a), "limits">>,
       <<"write", "js", "memReserved">>, <<"write", "js", "storeReserved">>, <<"unlock", "js">>,
       <<"lock", JsaOf(a)>>, <<"read", JsaOf(a), "msgSets">>, <<"unlock", JsaOf(a)>> >>

\* jsa.flushState()
flushLocks(a) ==
    << <<"lock", JsaOf(a)>>, <<"read", JsaOf(a), "msgSets">>, <<"unlock", JsaOf(a)>> >>

\* Programs in which the engine lock and the account-state lock are nested, in
\* both orders.
LockProgram_Nested(op, a) ==
    IF op = "Update"
    THEN << <<"lock", JsaOf(a)>>, <<"read", JsaOf(a), "limits">>, <<"lock", "js">> >>
             \o LedgerLocks
             \o << <<"unlock", "js">>, <<"write", JsaOf(a), "limits">>, <<"unlock", JsaOf(a)>> >>
    ELSE << <<"lock", "js">>, <<"write", "js", "accounts">>,
            <<"lock", JsaOf(a)>>, <<"read", JsaOf(a), "limits">>, <<"unlock", JsaOf(a)>>,
            <<"write", "js", "memReserved">>, <<"write", "js", "storeReserved">>,
            <<"unlock", "js">> >>

\* The lock program of operation op on account a.
LockProgram(op, a) ==
    CASE op = "Enable" -> EnableLocks(a)
      [] op = "Update" -> UpdateLocks(a)
      [] op = "Disable" -> LookupAccountLocks \o disableLocks(a)
      [] op = "Shutdown" ->
             << <<"lock", "s">>, <<"read", "js", "accounts">>, <<"unlock", "s">> >>
                 \o flushLocks("A") \o disableLocks("A")
                 \o flushLocks("B") \o disableLocks("B")
                 \o << <<"lock", "s">>, <<"write", "js", "accounts">>, <<"unlock", "s">> >>
      [] op = "updateUsage" ->
             << <<"lock", JsaOf(a)>>, <<"read", JsaOf(a), "memUsed">>,
                <<"write", JsaOf(a), "memUsed">>, <<"unlock", JsaOf(a)>> >>
      [] op = "LookupMsgSet" -> flushLocks(a)
      [] op = "JetStreamUsage" ->
             << <<"lock", JsaOf(a)>>, <<"read", JsaOf(a), "memUsed">>,
                <<"read", JsaOf(a), "storeUsed">>, <<"read", JsaOf(a), "msgSets">>,
                <<"read", JsaOf(a), "limits">>, <<"unlock", JsaOf(a)>> >>

\* The next instruction of goroutine p.
Instr(p) == LockProgram(proc[p].op, proc[p].acct)[proc[p].ip]

\* Goroutine p goes on to its next instruction, or returns after the last one.
Advance(p, held) ==
    LET r == proc[p] IN
    IF r.ip = Len(LockProgram(r.op, r.acct))
    THEN proc' = [proc EXCEPT ![p] = [ProcIdle EXCEPT !.pc = "done", !.op = r.op, !.acct = r.acct]]
    ELSE proc' = [proc EXCEPT ![p] = [r EXCEPT !.ip = r.ip + 1, !.held = held]]

\* An operation starts.
LockStart(p, op, a, n) ==
    /\ CanStart(p, n)
    /\ Goto(p, [proc[p] EXCEPT !.op = op, !.acct = a, !.ip = 1], "lk")
    /\ ops' = ops + 1
    /\ UNCHANGED <<sjs, js, jsas, ajs, imports, disk, crashed>>

\* mu.Lock() / mu.RLock(): the goroutine waits while the lock is not free.
Acquire(p) ==
    /\ Running /\ proc[p].pc = "lk"
    /\ Instr(p)[1] \in {"lock", "rlock"}
    /\ \A q \in Procs \ {p} :
          /\ <<Instr(p)[2], "w">> \notin proc[q].held
          /\ Instr(p)[1] = "lock" => <<Instr(p)[2], "r">> \notin proc[q].held
    /\ Advance(p, proc[p].held
                     \cup {<<Instr(p)[2], IF Instr(p)[1] = "lock" THEN "w" ELSE "r">>})
    /\ UNCHANGED <<ops, sjs, js, jsas, ajs, imports, disk, crashed>>

\* mu.Unlock() / mu.RUnlock()
Release(p) ==
    /\ Running /\ proc[p].pc = "lk"
    /\ Instr(p)[1] \in {"unlock", "runlock"}
    /\ Advance(p, proc[p].held \ {<<Instr(p)[2], "w">>, <<Instr(p)[2], "r">>})
    /\ UNCHANGED <<ops, sjs, js, jsas, ajs, imports, disk, crashed>>

\* A read or a write of a guarded field.
Access(p) ==
    /\ Running /\ proc[p].pc = "lk"
    /\ Instr(p)[1] \in {"read", "write"}
    /\ Advance(p, proc[p].held)
    /\ UNCHANGED <<ops, sjs, js, jsas, ajs, imports, disk, crashed>>

\* Goroutines call into the layer concurrently.
Next ==
    \/ \E p \in Procs, a \in Accts, l \in LimitsInputs : EnableJetStream(p, a, l, MaxOps)
    \/ \E p \in Procs : EnableLocked(p)
    \/ \E p \in Procs : EnableStamp(p)
    \/ \E p \in Procs : EnableImports(p)
    \/ \E p \in Procs : EnableRecover(p)
    \/ \E p \in Procs, a \in Accts, l \in LimitsInputs : UpdateJetStreamLimits(p, a, l, MaxOps)
    \/ \E p \in Procs : UpdateRead(p)
    \/ \E p \in Procs : UpdateLocked(p)
    \/ \E p \in Procs : UpdateStore(p)
    \/ \E p \in Procs, a \in Accts : DisableJetStream(p, a, MaxOps)
    \/ \E p \in Procs : DisableImports(p)
    \/ \E p \in Procs : DisableLookup(p)
    \/ \E p \in Procs : disableJetStream(p)
    \/ \E p \in Procs : disableDelete(p)
    \/ \E p \in Procs : shutdownJetStream(p, MaxOps)
    \/ \E p \in Procs : ShutdownFlush(p)
    \/ \E p \in Procs : ShutdownFinish(p)
    \/ \E p \in Procs : Returned(p)

Spec == Init /\ [][Next]_vars

\* The limits arguments of the single caller.
SeqLimitsInputs == { <<>>, <<Limits(1, 1, 1, 1)>>, <<Limits(2, 2, 2, 2)>> }

\* One caller, on account A: every operation returns before the next one starts.
NextSeq ==
    \/ \E l \in SeqLimitsInputs : EnableJetStream("p1", "A", l, MaxSeqOps)
    \/ EnableLocked("p1")
    \/ EnableStamp("p1")
    \/ EnableImports("p1")
    \/ EnableRecover("p1")
    \/ \E l \in SeqLimitsInputs : UpdateJetStreamLimits("p1", "A", l, MaxSeqOps)
    \/ UpdateRead("p1")
    \/ UpdateLocked("p1")
    \/ UpdateStore("p1")
    \/ DisableJetStream("p1", "A", MaxSeqOps)
    \/ DisableImports("p1")
    \/ DisableLookup("p1")
    \/ disableJetStream("p1")
    \/ disableDelete("p1")
    \/ shutdownJetStream("p1", MaxSeqOps)
    \/ ShutdownFlush("p1")
    \/ ShutdownFinish("p1")
    \/ Returned("p1")
    \/ \E c \in MsgSetInputs : CreateMsgSet("p1", "A", c, MaxSeqOps)
    \/ \E n \in {S1, S2}, o \in ObservableInputs : CreateObservable("p1", "A", n, o, MaxSeqOps)

SpecSeq == InitSeq /\ [][NextSeq]_vars

\* One caller enables and disables account A over a store directory that lost files.
NextRec ==
    \/ \E l \in SeqLimitsInputs : EnableJetStream("p1", "A", l, MaxRecOps)
    \/ EnableLocked("p1")
    \/ EnableStamp("p1")
    \/ EnableImports("p1")
    \/ EnableRecover("p1")
    \/ DisableJetStream("p1", "A", MaxRecOps)
    \/ DisableImports("p1")
    \/ DisableLookup("p1")
    \/ disableJetStream("p1")
    \/ disableDelete("p1")
    \/ Returned("p1")

SpecRec == InitRec /\ [][NextRec]_vars

\* The MSGSET.CREATE bodies tried: JSON of a config, or text that is not JSON.
NoConfig == MsgSetConfig(<<>>, "", 0, 0, 0)
ApiMsgSetInputs ==
    { MsgSetConfig(S1, MemoryStorage, 2, 1, 0),
      MsgSetConfig(S2, MemoryStorage, 2, 1, 0),
      MsgSetConfig(S2, FileStorage, 3, 1, 0),
      MsgSetConfig(S2, FileStorage, 0, 2, 0),
      MsgSetConfig(S2, FileStorage, 0, 1, 3),
      MsgSetConfig(S2, FileStorage, 3, 2, 3),
      MsgSetConfig(S2, FileStorage, 3, 1, 3),
      MsgSetConfig(<<>>, FileStorage, 0, 1, 0),
      MsgSetConfig(<<"S", ".">>, FileStorage, 0, 1, 0),
      MsgSetConfig(<<"*">>, FileStorage, 0, 1, 0),
      MsgSetConfig(<<">", "1">>, FileStorage, 0, 1, 0) }
CreateBodies ==
    {[valid |-> TRUE, cfg |-> c] : c \in ApiMsgSetInputs}
        \cup {[valid |-> FALSE, cfg |-> NoConfig]}

\* The OBSERVABLE.CREATE bodies tried.
ObsCreateBodies ==
    { [valid |-> TRUE, set |-> S1, obs |-> O1],
      [valid |-> TRUE, set |-> S2, obs |-> O1],
      [valid |-> FALSE, set |-> <<>>, obs |-> <<>>] }

\* Bodies of the handlers that expect a message set name.
NameBodies == { <<>>, S1, S2 }

\* Bodies of MSGSET.MSG.DELETE ("<set> <seq>").
SeqBodies ==
    { <<>>, S1, S1 \o <<" ", "1">>, S1 \o <<" ", "1", " ", "2">>, S1 \o <<" ", " ", "1">>,
      S2 \o <<" ", "7">> }

\* Bodies of OBSERVABLE.INFO and OBSERVABLE.DELETE ("<set> <observable>").
ObsBodies ==
    { <<>>, S1, S1 \o <<" ">> \o O1, S1 \o <<" ">> \o O2,
      S1 \o <<" ">> \o O1 \o <<" ">> \o O2, S2 \o <<" ">> \o O1 }

\* The requests a client sends: subject and body.
RequestInputs ==
    ({"INFO", "MSGSETS"} \X {<<>>})
        \cup ({"MSGSET.CREATE"} \X CreateBodies)
        \cup ({"OBSERVABLE.CREATE"} \X ObsCreateBodies)
        \cup ({"MSGSET.INFO", "MSGSET.DELETE", "MSGSET.PURGE", "OBSERVABLES"} \X NameBodies)
        \cup ({"MSGSET.MSG.DELETE"} \X SeqBodies)
        \cup ({"OBSERVABLE.INFO", "OBSERVABLE.DELETE"} \X ObsBodies)

\* One client of account A sends requests while the account is enabled, updated
\* and disabled; every request is answered before the next operation starts.
NextApi ==
    \/ \E l \in SeqLimitsInputs : EnableJetStream("p1", "A", l, MaxApiOps)
    \/ EnableLocked("p1")
    \/ EnableStamp("p1")
    \/ EnableImports("p1")
    \/ EnableRecover("p1")
    \/ \E l \in SeqLimitsInputs : UpdateJetStreamLimits("p1", "A", l, MaxApiOps)
    \/ UpdateRead("p1")
    \/ UpdateLocked("p1")
    \/ UpdateStore("p1")
    \/ DisableJetStream("p1", "A", MaxApiOps)
    \/ DisableImports("p1")
    \/ DisableLookup("p1")
    \/ disableJetStream("p1")
    \/ disableDelete("p1")
    \/ Returned("p1")
    \/ isJsEnabledRequest("p1", "A", MaxApiOps)
    \/ \E q \in RequestInputs : jsRequest("p1", "A", q[1], q[2], MaxApiOps)
    \/ jsAccountInfoRequest("p1")
    \/ jsCreateMsgSetRequest("p1")
    \/ jsMsgSetsRequest("p1")
    \/ jsMsgSetInfoRequest("p1")
    \/ jsMsgSetDeleteRequest("p1")
    \/ jsMsgDeleteRequest("p1")
    \/ jsMsgSetPurgeRequest("p1")
    \/ jsCreateObservableRequest("p1")
    \/ jsObservablesRequest("p1")
    \/ jsObservableInfoRequest("p1")
    \/ jsObservableDeleteRequest("p1")

SpecApi == InitSeq /\ [][NextApi]_vars

\* The same, with the goroutine that serves a request scheduled until it returns.
SpecApiLive == InitSeq /\ [][NextApi]_vars /\ WF_vars(NextApi)

\* The MSGSET.CREATE bodies of the concurrent clients.
RaceBodies ==
    { [valid |-> TRUE, cfg |-> MsgSetConfig(S1, FileStorage, 0, 1, 0)],
      [valid |-> TRUE, cfg |-> MsgSetConfig(S2, FileStorage, 0, 1, 0)] }

\* Clients of account A send MSGSET.CREATE requests concurrently, while the
\* account is being enabled.
NextRace ==
    \/ \E p \in Procs, l \in SeqLimitsInputs \ {<<>>} : EnableJetStream(p, "A", l, MaxRaceOps)
    \/ \E p \in Procs : EnableLocked(p)
    \/ \E p \in Procs : EnableStamp(p)
    \/ \E p \in Procs : EnableImports(p)
    \/ \E p \in Procs : EnableRecover(p)
    \/ \E p \in Procs : Returned(p)
    \/ \E p \in Procs, b \in RaceBodies : jsRequest(p, "A", "MSGSET.CREATE", b, MaxRaceOps)
    \/ \E p \in Procs : jsCreateMsgSetRequest(p)

SpecRace == InitSeq /\ [][NextRace]_vars

\* The deltas the store layer reports.
UsageDeltas == { 5, -5, 7 }

\* Account A is enabled and the stores of its message sets report their usage
\* concurrently.
NextUse ==
    \/ \E p \in Procs : EnableJetStream(p, "A", <<>>, MaxUseOps)
    \/ \E p \in Procs : EnableLocked(p)
    \/ \E p \in Procs : EnableStamp(p)
    \/ \E p \in Procs : EnableImports(p)
    \/ \E p \in Procs : EnableRecover(p)
    \/ \E p \in Procs : Returned(p)
    \/ \E p \in Procs, t \in {MemoryStorage, FileStorage}, d \in UsageDeltas :
          updateUsage(p, 1, t, d, MaxUseOps)
    \/ \E p \in Procs : UsageAdd(p)

SpecUse == Started([a \in Accts |-> NoDirs]) /\ [][NextUse]_vars

\* The operations run concurrently, each as its lock program; a goroutine that
\* can take a step is scheduled.
NextLock ==
    \/ \E p \in Procs, a \in Accts :
          \E op \in { "Enable", "Update", "Disable", "Shutdown", "updateUsage",
                      "LookupMsgSet", "JetStreamUsage" } : LockStart(p, op, a, MaxLockOps)
    \/ \E p \in Procs : Acquire(p)
    \/ \E p \in Procs : Release(p)
    \/ \E p \in Procs : Access(p)
    \/ \E p \in Procs : Returned(p)

SpecLock ==
    /\ Started([a \in Accts |-> NoDirs])
    /\ [][NextLock]_vars
    /\ \A p \in Procs : WF_vars(Acquire(p) \/ Release(p) \/ Access(p) \/ Returned(p))

\* The int64 values tried for the ledger and for the fields of a limits record:
\* the smallest and the largest value of the width, and values around zero.
AlgValues == { -(2 ^ (UsedBits - 1)), -1, 0, 1, 3, 2 ^ (UsedBits - 1) - 1 }
AlgLimits == { Limits(m, s, k, k) : m \in AlgValues, s \in {-1, 0, 2}, k \in {-1, 1} }

\* The ledger with its counters at the width of int64.
WrapLedger(j) == [j EXCEPT !.memReserved = Wrap(@), !.storeReserved = Wrap(@)]

\* A call of diffCheckedLimits(a, b).
AlgDiff(p, a, b, n) ==
    /\ CanStart(p, n)
    /\ proc' = [proc EXCEPT ![p] = [ProcIdle EXCEPT !.pc = "done", !.op = "diff", !.limits = b,
                                                    !.jsaLimits = a,
                                                    !.dl = diffCheckedLimits(a, b)]]
    /\ ops' = ops + 1
    /\ UNCHANGED <<sjs, js, jsas, ajs, imports, disk, crashed>>

\* js.reserveResources(d); the caller has noted the ledger before the call.
AlgReserve(p, d, n) ==
    /\ CanStart(p, n)
    /\ js' = WrapLedger(reserveResources(js, d))
    /\ Goto(p, [proc[p] EXCEPT !.op = "reserve", !.dl = d,
                               !.body = <<js.memReserved, js.storeReserved>>], "algRelease")
    /\ ops' = ops + 1
    /\ UNCHANGED <<sjs, jsas, ajs, imports, disk, crashed>>

\* js.releaseResources(d) with the same d.
AlgRelease(p) ==
    LET r == proc[p] IN
    /\ Running /\ r.pc = "algRelease"
    /\ js' = WrapLedger(releaseResources(js, r.dl))
    /\ proc' = [proc EXCEPT ![p] = [r EXCEPT !.pc = "done"]]
    /\ UNCHANGED <<ops, sjs, jsas, ajs, imports, disk, crashed>>

NextAlg ==
    \/ \E a \in AlgLimits : \E b \in {a, dynamicAccountLimits} : AlgDiff("p1", a, b, MaxAlgOps)
    \/ \E d \in AlgLimits : AlgReserve("p1", d, MaxAlgOps)
    \/ AlgRelease("p1")
    \/ Returned("p1")

\* A running engine with any ledger.
InitAlg ==
    /\ sjs = TRUE
    /\ js \in { [memReserved |-> m, storeReserved |-> t, accounts |-> [a \in Accts |-> 0]] :
                   m \in AlgValues, t \in AlgValues }
    /\ jsas = <<>>
    /\ ajs = [a \in Accts |-> 0]
    /\ imports = [a \in Accts |-> {}]
    /\ disk = [a \in Accts |-> NoDirs]
    /\ proc = [p \in Procs |-> ProcIdle]
    /\ ops = 0
    /\ crashed = FALSE

\* The quota functions are called on every ledger and every limits record.
SpecAlg == InitAlg /\ [][NextAlg]_vars

\* The limits tried on two accounts.
IsoLimitsInputs == { <<Limits(1, 1, 1, 1)>>, <<Limits(2, 1, 2, 2)>> }

\* Two goroutines operate on the accounts A and B: enable, limits update, disable,
\* message-set create and delete, usage update.
NextIso ==
    \/ \E p \in Procs, a \in Accts, l \in IsoLimitsInputs : EnableJetStream(p, a, l, MaxIsoOps)
    \/ \E p \in Procs : EnableLocked(p)
    \/ \E p \in Procs : EnableStamp(p)
    \/ \E p \in Procs : EnableImports(p)
    \/ \E p \in Procs : EnableRecover(p)
    \/ \E p \in Procs, a \in Accts, l \in IsoLimitsInputs :
          UpdateJetStreamLimits(p, a, l, MaxIsoOps)
    \/ \E p \in Procs : UpdateRead(p)
    \/ \E p \in Procs : UpdateLocked(p)
    \/ \E p \in Procs : UpdateStore(p)
    \/ \E p \in Procs, a \in Accts : DisableJetStream(p, a, MaxIsoOps)
    \/ \E p \in Procs : DisableImports(p)
    \/ \E p \in Procs : DisableLookup(p)
    \/ \E p \in Procs : disableJetStream(p)
    \/ \E p \in Procs : disableDelete(p)
    \/ \E p \in Procs : Returned(p)
    \/ \E p \in Procs, a \in Accts :
          CreateMsgSet(p, a, MsgSetConfig(S2, FileStorage, 1, 1, 0), MaxIsoOps)
    \/ \E p \in Procs, a \in Accts, n \in {S1, S2} :
          jsRequest(p, a, "MSGSET.DELETE", n, MaxIsoOps)
    \/ \E p \in Procs : jsMsgSetDeleteRequest(p)
    \/ \E p \in Procs, id \in 1..2, d \in {5} :
          updateUsage(p, id, MemoryStorage, d, MaxIsoOps)
    \/ \E p \in Procs : UsageAdd(p)

SpecIso == Init /\ [][NextIso]_vars

\* One caller enables JetStream on the server and on account A, where the set-up
\* steps may fail.
NextErr ==
    \/ \E m \in BOOLEAN : ServerEnableJetStream("p1", m, MaxErrOps)
    \/ ServerSetup("p1")
    \/ \E l \in SeqLimitsInputs : EnableJetStream("p1", "A", l, MaxErrOps)
    \/ EnableLocked("p1")
    \/ EnableStamp("p1")
    \/ EnableImports("p1")
    \/ EnableImportsFail("p1")
    \/ EnableRecover("p1")
    \/ DisableJetStream("p1", "A", MaxErrOps)
    \/ DisableImports("p1")
    \/ DisableLookup("p1")
    \/ disableJetStream("p1")
    \/ disableDelete("p1")
    \/ Returned("p1")

SpecErr == (\E d \in DiskInputs : NotStarted(d)) /\ [][NextErr]_vars

(***************************************************************************)
(* Properties                                                              *)
(***************************************************************************)

\* No operation is in progress.
Quiescent == \A p \in Procs : proc[p].pc \in {"idle", "done"}

\* The accounts in the engine registry.
Registered == {a \in Accts : js.accounts[a] # 0}

RECURSIVE SumMaxMemory(_), SumMaxStore(_)
SumMaxMemory(S) ==
    IF S = {} THEN 0
    ELSE LET a == CHOOSE x \in S : TRUE
         IN  jsas[js.accounts[a]].limits.MaxMemory + SumMaxMemory(S \ {a})
SumMaxStore(S) ==
    IF S = {} THEN 0
    ELSE LET a == CHOOSE x \in S : TRUE
         IN  jsas[js.accounts[a]].limits.MaxStore + SumMaxStore(S \ {a})

\* Goroutine p takes a step.
Steps(p) == proc'[p] # proc[p]

\* Operation op of goroutine p has returned e.
Done(p, op, e) == proc[p].pc = "done" /\ proc[p].op = op /\ proc[p].err = e

\* C1: at every quiescent point of a running engine, memReserved is the sum of
\* limits.MaxMemory over the registered accounts and storeReserved the sum of
\* limits.MaxStore.
C1_LedgerIsSumOfLimits ==
    Quiescent /\ sjs /\ ~crashed =>
        /\ js.memReserved = SumMaxMemory(Registered)
        /\ js.storeReserved = SumMaxStore(Registered)

\* C2: in every reachable state memReserved is at most config.MaxMemory and
\* storeReserved at most config.MaxStore.
C2_ReservedWithinConfig ==
    /\ js.memReserved <= CfgMaxMemory
    /\ js.storeReserved <= CfgMaxStore

\* C2 witness: two accounts are registered and the whole memory is reserved.
C2_Witness ==
    /\ Registered = Accts
    /\ js.memReserved = CfgMaxMemory
    /\ js.storeReserved > 0

\* C3: in every reachable state memReserved and storeReserved are at least zero.
C3_ReservedNonNegative ==
    /\ js.memReserved >= 0
    /\ js.storeReserved >= 0

\* C4: an account enable whose limits do not fit the engine's memory fails with
\* 'insufficient memory resources available', one whose limits fit the memory and
\* not the storage fails with 'insufficient storage resources available', and no
\* step of an enable that fails so changes the ledger, the registry, the account
\* states, the accounts' enabled flags, the service imports or the disk.
C4_EnableInsufficient ==
    [][\A p \in Procs :
          /\ proc[p].pc = "enLocked" /\ Steps(p)
             /\ js.memReserved + proc[p].limits.MaxMemory > CfgMaxMemory
             => proc'[p].pc = "done" /\ proc'[p].err = ErrInsufficientMem
          /\ proc[p].pc = "enLocked" /\ Steps(p)
             /\ js.memReserved + proc[p].limits.MaxMemory <= CfgMaxMemory
             /\ js.storeReserved + proc[p].limits.MaxStore > CfgMaxStore
             => proc'[p].pc = "done" /\ proc'[p].err = ErrInsufficientStore
          /\ Steps(p) /\ proc'[p].op = "Enable"
             /\ ( \/ proc'[p].pc = "enLocked"
                  \/ proc'[p].pc = "done"
                     /\ proc'[p].err \in {ErrInsufficientMem, ErrInsufficientStore} )
             => UNCHANGED <<sjs, js, jsas, ajs, imports, disk>>
    ]_vars

\* C4 witness: an enable has failed for storage after another account was enabled.
C4_Witness ==
    \E p \in Procs :
        /\ Done(p, "Enable", ErrInsufficientStore)
        /\ js.storeReserved > 0
        /\ js.accounts[proc[p].acct] = 0

\* C5: an enable of an account that is in the engine registry returns an error and
\* changes nothing; the error is 'jetstream already enabled for account' when the
\* limits pass the quota check.
C5_EnableAlreadyEnabled ==
    [][\A p \in Procs :
          proc[p].pc = "enLocked" /\ Steps(p) /\ js.accounts[proc[p].acct] # 0
          => /\ proc'[p].pc = "done"
             /\ proc'[p].err # NoErr
             /\ UNCHANGED <<sjs, js, jsas, ajs, imports, disk>>
             /\ ( /\ js.memReserved + proc[p].limits.MaxMemory <= CfgMaxMemory
                  /\ js.storeReserved + proc[p].limits.MaxStore <= CfgMaxStore
                  => proc'[p].err = ErrAlreadyEnabled )
    ]_vars

\* C5 witness: an enable was refused as a duplicate and the account is still registered.
C5_Witness ==
    \E p \in Procs :
        /\ Done(p, "Enable", ErrAlreadyEnabled)
        /\ js.accounts[proc[p].acct] # 0
        /\ js.memReserved > 0

\* C6: a limits update whose difference new - old fails the sufficient-resources
\* check returns that error, and no step of it changes the ledger or any
\* account's limits.
C6_UpdateInsufficient ==
    [][\A p \in Procs :
          /\ proc[p].pc = "upLocked" /\ Steps(p)
             /\ ( \/ js.memReserved + (proc[p].limits.MaxMemory - proc[p].jsaLimits.MaxMemory)
                        > CfgMaxMemory
                  \/ js.storeReserved + (proc[p].limits.MaxStore - proc[p].jsaLimits.MaxStore)
                        > CfgMaxStore )
             => /\ proc'[p].pc = "done"
                /\ proc'[p].err \in {ErrInsufficientMem, ErrInsufficientStore}
          /\ Steps(p) /\ proc'[p].op = "Update"
             /\ ( \/ proc'[p].pc \in {"upRead", "upLocked"}
                  \/ proc'[p].pc = "done"
                     /\ proc'[p].err \in {ErrInsufficientMem, ErrInsufficientStore} )
             => UNCHANGED <<sjs, js, jsas, ajs, imports, disk>>
    ]_vars

\* C6 witness: an update has failed the check while both accounts hold reservations.
C6_Witness ==
    \E p \in Procs :
        /\ Done(p, "Update", ErrInsufficientStore)
        /\ js.accounts[proc[p].acct] # 0
        /\ js.storeReserved = CfgMaxStore

\* C7: when the update-limits path releases and reserves under the engine lock, the
\* old limits it releases are the limits the account holds and the account is
\* still the registered one.
C7_UpdateAtomic ==
    [][\A p \in Procs :
          proc[p].pc = "upLocked" /\ proc'[p].pc = "upStore"
          => /\ proc[p].jsaLimits = jsas[proc[p].jsa].limits
             /\ js.accounts[proc[p].acct] = proc[p].jsa
    ]_vars

\* The positive part of a limit: what reserve and release apply.
Pos(x) == IF x > 0 THEN x ELSE 0

\* C8: after a successful DisableJetStream the account is not in the registry, is
\* not enabled, has no service import, every message set of its state is stopped,
\* and the ledger went down by the positive MaxMemory and MaxStore of its limits,
\* in the step that unregisters it and in no other; DisableJetStream of an account
\* that is not registered returns 'jetstream not enabled for account' and no step
\* of a DisableJetStream changes the ledger otherwise.
C8_DisablePost ==
    /\ [](\A p \in Procs :
            Done(p, "Disable", NoErr)
            => /\ js.accounts[proc[p].acct] = 0
               /\ ajs[proc[p].acct] = 0
               /\ imports[proc[p].acct] = {}
               /\ proc[p].jsa # 0
               /\ \A n \in DOMAIN jsas[proc[p].jsa].msgSets :
                     jsas[proc[p].jsa].msgSets[n].stopped)
    /\ [][\A p \in Procs :
            /\ Steps(p) /\ proc[p].op = "Disable" /\ proc[p].pc = "djLocked"
               => /\ js'.memReserved
                        = js.memReserved - Pos(jsas[proc[p].jsa].limits.MaxMemory)
                  /\ js'.storeReserved
                        = js.storeReserved - Pos(jsas[proc[p].jsa].limits.MaxStore)
            /\ Steps(p) /\ proc'[p].op = "Disable" /\ proc[p].pc # "djLocked"
               => /\ js'.memReserved = js.memReserved
                  /\ js'.storeReserved = js.storeReserved
            /\ Steps(p) /\ proc[p].pc = "disLookup" /\ js.accounts[proc[p].acct] = 0
               => proc'[p].pc = "done" /\ proc'[p].err = ErrNotEnabledForAccount
            /\ Steps(p) /\ proc[p].pc = "disLookup" /\ js.accounts[proc[p].acct] # 0
               => proc'[p].pc = "djLocked"
       ]_vars

\* C8 witness: an account with a message set and positive limits has been disabled.
C8_Witness ==
    \E p \in Procs :
        /\ Done(p, "Disable", NoErr)
        /\ jsas[proc[p].jsa].limits.MaxMemory > 0
        /\ jsas[proc[p].jsa].limits.MaxStore > 0
        /\ DOMAIN jsas[proc[p].jsa].msgSets # {}
        /\ js.memReserved = 0

\* C9: no step of DisableJetStream or of shutdownJetStream changes the store
\* directory: meta files and stored data stay as they were.
C9_DiskUnchanged ==
    [][\A p \in Procs :
          Steps(p) /\ ( \/ proc[p].op \in {"Disable", "Shutdown"}
                        \/ proc'[p].op \in {"Disable", "Shutdown"} )
          => disk' = disk
    ]_vars

\* C9 witness: shutdown has completed, it stopped a message set that has an
\* observable, and the set's directory still holds its meta files.
C9_Witness ==
    /\ ~sjs
    /\ \E i \in 1..Len(jsas) :
          /\ S1 \in DOMAIN jsas[i].msgSets
          /\ jsas[i].msgSets[S1].stopped
          /\ jsas[i].msgSets[S1].storeStopped
          /\ S1 \in DOMAIN disk[jsas[i].account]
          /\ disk[jsas[i].account][S1].inf
          /\ disk[jsas[i].account][S1].sum
          /\ O1 \in DOMAIN disk[jsas[i].account][S1].obs

\* What a jsAccount's registry holds: each message set's config and the names of
\* its observables.
RegistryView(i) ==
    [n \in DOMAIN jsas[i].msgSets |->
        [config |-> jsas[i].msgSets[n].config, obs |-> DOMAIN jsas[i].msgSets[n].obs]]

\* The jsAccount objects the account of jsAccount j had before j.
Earlier(j) == {i \in 1..(j - 1) : jsas[i].account = jsas[j].account}

\* C10: when an account that was disabled is enabled again with the limits it had,
\* the enable succeeds and the registry recovered holds the message sets, configs
\* and observable names the registry held at the disable; so does every further
\* disable / enable.
C10_SameRegistry ==
    \A p \in Procs :
        /\ proc[p].pc = "done" /\ proc[p].op = "Enable"
        /\ proc[p].jsa # 0 /\ Earlier(proc[p].jsa) # {}
        => LET j == proc[p].jsa
               i == CHOOSE x \in Earlier(j) : \A y \in Earlier(j) : y <= x
           IN  jsas[j].limits = jsas[i].limits
               => proc[p].err = NoErr /\ RegistryView(j) = RegistryView(i)

\* The limits lim admit every stored config of the directories dirs that have
\* their meta files.
Admits(lim, dirs) ==
    LET full == {n \in DOMAIN dirs : dirs[n].inf /\ dirs[n].sum /\ dirs[n].json} IN
    /\ lim.MaxMsgSets > 0 => Cardinality(full) <= lim.MaxMsgSets
    /\ \A n \in full :
          LET c == dirs[n].cfg IN
          /\ c.Replicas = 1
          /\ c.MaxObservables > 0 => c.MaxObservables <= lim.MaxObservables
          /\ c.MaxBytes > 0 /\ c.Storage = MemoryStorage
             => c.MaxBytes * c.Replicas <= lim.MaxMemory
          /\ c.MaxBytes > 0 /\ c.Storage = FileStorage
             => c.MaxBytes * c.Replicas <= lim.MaxStore

C12_RecoverySkipsFailedAdd ==
    [][\A p \in Procs :
          proc[p].pc = "enRecover" /\ Steps(p)
          => /\ ~crashed'
             /\ proc'[p].pc = "done" /\ proc'[p].err = NoErr
    ]_vars

\* C13: after recovery every registered observable has its stored state restored
\* (readStoredState succeeded); an observable whose stored state could not be read
\* is not in the registry.
C13_NoPartialRegistration ==
    \A p \in Procs :
        Done(p, "Enable", NoErr)
        => \A n \in DOMAIN jsas[proc[p].jsa].msgSets :
              \A o \in DOMAIN jsas[proc[p].jsa].msgSets[n].obs :
                 jsas[proc[p].jsa].msgSets[n].obs[o].restored

\* A create of account a is served for config name n: the step of the handler of
\* goroutine p that calls AddMsgSet.
CreateStep(p, n) ==
    /\ proc[p].pc = "hServe" /\ proc[p].op = "MSGSET.CREATE" /\ Steps(p)
    /\ proc[p].body.valid /\ proc[p].body.cfg.Name = n
    /\ ajs[proc[p].acct] # 0

\* C14: of the creates of one name on one account exactly one succeeds: a create
\* of a registered name is answered '-ERR msgset already exists' and leaves the
\* entry as it is, a create that succeeds adds exactly that name, and a recovery
\* that finds a stored name already created by a client fails for that name only:
\* the server goes on and the registry keeps the one entry.
C14_OneCreatePerName ==
    [][\A p \in Procs :
          /\ \A n \in {S1, S2} :
                CreateStep(p, n)
                => LET id == ajs[proc[p].acct] IN
                   IF n \in DOMAIN jsas[id].msgSets
                   THEN /\ proc'[p].reply = ErrReply(ErrMsgSetExists)
                        /\ jsas'[id].msgSets = jsas[id].msgSets
                   ELSE proc'[p].reply = Text(OK)
                        => /\ DOMAIN jsas'[id].msgSets = DOMAIN jsas[id].msgSets \cup {n}
                           /\ \A m \in DOMAIN jsas[id].msgSets :
                                 jsas'[id].msgSets[m] = jsas[id].msgSets[m]
          /\ proc[p].pc = "enRecover" /\ Steps(p)
             => LET id == proc[p].jsa
                    dirs == disk[proc[p].acct]
                    reg == jsas[id].msgSets
                IN  /\ Admits(jsas[id].limits, dirs)
                    /\ jsas[id].limits.MaxMsgSets > 0
                       => Cardinality(DOMAIN dirs \cup DOMAIN reg) <= jsas[id].limits.MaxMsgSets
                    /\ \E n \in DOMAIN dirs : n \in DOMAIN reg
                    => /\ ~crashed'
                       /\ \A n \in DOMAIN reg : jsas'[id].msgSets[n] = reg[n]
    ]_vars

\* The handler of goroutine p calls AddMsgSet with the config of its request.
AdmissionStep(p) ==
    /\ proc[p].pc = "hServe" /\ proc[p].op = "MSGSET.CREATE" /\ Steps(p)
    /\ proc[p].body.valid
    /\ ajs[proc[p].acct] # 0

\* The reasons to refuse config c on jsAccount jsa: the name is empty or holds
\* '.', '*' or '>', the name is registered, replicas is not 1, a limit is exceeded,
\* or the resources are insufficient.
AdmissionRejects(jsa, c) ==
    \/ c.Name = <<>>
    \/ \E i \in 1..Len(c.Name) : c.Name[i] \in {".", "*", ">"}
    \/ c.Name \in DOMAIN jsa.msgSets
    \/ c.Replicas # 1
    \/ jsa.limits.MaxMsgSets > 0 /\ Cardinality(DOMAIN jsa.msgSets) >= jsa.limits.MaxMsgSets
    \/ jsa.limits.MaxObservables > 0 /\ c.MaxObservables > jsa.limits.MaxObservables
    \/ /\ c.MaxBytes > 0 /\ c.Storage = MemoryStorage
       /\ jsa.memReserved + c.MaxBytes * c.Replicas > jsa.limits.MaxMemory
    \/ /\ c.MaxBytes > 0 /\ c.Storage = FileStorage
       /\ jsa.storeReserved + c.MaxBytes * c.Replicas > jsa.limits.MaxStore

\* The reasons a create is answered with.
AdmissionErrors ==
    { ErrInvalidName, ErrMsgSetExists, ErrMaxMsgSets, ErrMaxObservables, ErrInsufficientMem,
      ErrInsufficientStore } \cup { ErrReplicasN(n) : n \in 0..3 }

\* C15: a MSGSET.CREATE that admission rejects is answered '-ERR <reason>', and a
\* create answered with anything but +OK leaves the account's registry, its usage
\* counters, the engine ledger and the store directory unchanged.
C15_RejectedCreateNoChange ==
    [][\A p \in Procs :
          AdmissionStep(p)
          => /\ AdmissionRejects(jsas[ajs[proc[p].acct]], proc[p].body.cfg)
                => proc'[p].reply # Text(OK)
             /\ proc'[p].reply # Text(OK)
                => /\ \E e \in AdmissionErrors : proc'[p].reply = ErrReply(e)
                   /\ jsas' = jsas
                   /\ js' = js
                   /\ disk' = disk
    ]_vars

\* C15 witness: a create of S2 with MaxBytes 3 on file storage was answered
\* '-ERR insufficient storage resources available' by an account that holds S1.
C15_Witness ==
    \E p \in Procs :
        /\ proc[p].pc = "done" /\ proc[p].op = "MSGSET.CREATE"
        /\ proc[p].body.valid /\ proc[p].body.cfg.Name = S2
        /\ proc[p].reply = ErrReply(ErrInsufficientStore)
        /\ ajs[proc[p].acct] # 0
        /\ DOMAIN jsas[ajs[proc[p].acct]].msgSets = {S1}

\* C16: a create is answered 'maximum observables exceeds account limit' only by
\* an account whose MaxObservables limit is positive and smaller than the config's
\* MaxObservables; an account with a non-positive (unlimited) MaxObservables
\* never rejects a config for its MaxObservables.
C16_MaxObservablesOnlyWhenPositive ==
    [][\A p \in Procs :
          AdmissionStep(p) /\ proc'[p].reply = ErrReply(ErrMaxObservables)
          => LET lim == jsas[ajs[proc[p].acct]].limits IN
             /\ lim.MaxObservables > 0
             /\ proc[p].body.cfg.MaxObservables > lim.MaxObservables
    ]_vars

RECURSIVE SumBytes(_, _)
\* The total of MaxBytes * Replicas over the message sets named in names.
SumBytes(sets, names) ==
    IF names = {} THEN 0
    ELSE LET n == CHOOSE x \in names : TRUE
         IN  sets[n].config.MaxBytes * sets[n].config.Replicas + SumBytes(sets, names \ {n})

\* The bytes promised to the live message sets of jsa on storage kind.
PromisedBytes(jsa, kind) ==
    SumBytes(jsa.msgSets,
             {n \in DOMAIN jsa.msgSets :
                 /\ ~jsa.msgSets[n].stopped
                 /\ jsa.msgSets[n].config.Storage = kind
                 /\ jsa.msgSets[n].config.MaxBytes > 0})

\* C17: an admitted create never takes the total of MaxBytes * Replicas of the
\* account's live memory message sets above limits.MaxMemory, nor the total of its
\* file message sets above limits.MaxStore.
C17_PromisedWithinLimits ==
    [][\A p \in Procs :
          AdmissionStep(p) /\ proc'[p].reply = Text(OK)
          => LET id == ajs[proc[p].acct] IN
             /\ PromisedBytes(jsas[id], MemoryStorage) <= jsas[id].limits.MaxMemory
                => PromisedBytes(jsas'[id], MemoryStorage) <= jsas'[id].limits.MaxMemory
             /\ PromisedBytes(jsas[id], FileStorage) <= jsas[id].limits.MaxStore
                => PromisedBytes(jsas'[id], FileStorage) <= jsas'[id].limits.MaxStore
    ]_vars

\* C18: the registry of an enabled account whose limits.MaxMsgSets is positive
\* never holds more than MaxMsgSets message sets, whatever creates, recoveries
\* and limit updates came before.
C18_CountWithinMaxMsgSets ==
    \A a \in Accts :
        ajs[a] # 0 /\ jsas[ajs[a]].limits.MaxMsgSets > 0
        => Cardinality(DOMAIN jsas[ajs[a]].msgSets) <= jsas[ajs[a]].limits.MaxMsgSets

\* Goroutine p receives a request on subject h of the API.
Receives(p, h) == proc[p].pc = "idle" /\ Steps(p) /\ proc'[p].op = h

Serves(p, h) == proc[p].pc = "hServe" /\ proc[p].op = h /\ Steps(p)

\* The body of the request of goroutine p cannot be parsed by the handler of
\* subject h: it does not hold exactly one " " (two tokens), it is empty where a
\* name is expected, or it is not JSON.
Unparsable(p, h) ==
    LET b == proc[p].body IN
    CASE h \in {"MSGSET.MSG.DELETE", "OBSERVABLE.INFO", "OBSERVABLE.DELETE"}
           -> Cardinality({i \in 1..Len(b) : b[i] = " "}) # 1
      [] h \in {"MSGSET.INFO", "MSGSET.DELETE", "MSGSET.PURGE", "OBSERVABLES"}
           -> b = <<>>
      [] h \in {"MSGSET.CREATE", "OBSERVABLE.CREATE"}
           -> ~b.valid
      [] OTHER -> FALSE

\* C20: a request of an enabled account whose body cannot be parsed is answered
\* "-ERR 'bad request'" and changes neither the registry nor the store directory;
\* no request that can be parsed is answered so.
C20_BadRequest ==
    [][\A p \in Procs : \A h \in Handlers :
          Serves(p, h)
          => /\ Unparsable(p, h)
                => /\ proc'[p].pc = "done"
                   /\ proc'[p].reply = <<"text", "-ERR 'bad request'">>
                   /\ jsas' = jsas /\ disk' = disk /\ js' = js /\ ajs' = ajs
             /\ proc'[p].reply = <<"text", "-ERR 'bad request'">> => Unparsable(p, h)
    ]_vars

\* C20 witness: an OBSERVABLE.DELETE with the three tokens "S1 O1 O2" was answered
\* "-ERR 'bad request'" while S1 holds observable O1.
C20_Witness ==
    \E p \in Procs :
        /\ proc[p].pc = "done" /\ proc[p].op = "OBSERVABLE.DELETE"
        /\ proc[p].body = S1 \o <<" ">> \o O1 \o <<" ">> \o O2
        /\ proc[p].reply = Text(JetStreamBadRequest)
        /\ ajs[proc[p].acct] # 0
        /\ S1 \in DOMAIN jsas[ajs[proc[p].acct]].msgSets
        /\ O1 \in DOMAIN jsas[ajs[proc[p].acct]].msgSets[S1].obs

\* The text t starts with "-ERR " and a message follows.
IsErrText(t) == Len(t) > 5 /\ SubSeq(t, 1, 5) = "-ERR "

\* A reply is +OK, a JSON document or an -ERR text.
WellFormedReply(r) ==
    \/ r = <<"text", "+OK">>
    \/ r[1] = "json"
    \/ r[1] = "text" /\ IsErrText(r[2])

SpaceAt(b) == CHOOSE i \in 1..Len(b) : b[i] = " "

\* The message set named by the request that goroutine p serves on subject h.
SetNamed(p, h) ==
    LET b == proc[p].body IN
    CASE h \in {"MSGSET.MSG.DELETE", "OBSERVABLE.INFO", "OBSERVABLE.DELETE"}
           -> SubSeq(b, 1, SpaceAt(b) - 1)
      [] h = "OBSERVABLE.CREATE" -> b.set
      [] OTHER -> b

\* The observable named by an OBSERVABLE.INFO or OBSERVABLE.DELETE request.
ObsNamed(p) == LET b == proc[p].body IN SubSeq(b, SpaceAt(b) + 1, Len(b))

\* The handlers that look a message set up by name.
LookupHandlers ==
    { "MSGSET.INFO", "MSGSET.DELETE", "MSGSET.PURGE", "MSGSET.MSG.DELETE", "OBSERVABLE.CREATE",
      "OBSERVABLES", "OBSERVABLE.INFO", "OBSERVABLE.DELETE" }

\* C22: a parsable request of an enabled account that names a message set missing
\* from the registry is answered '-ERR msgset not found' (single-quoted by
\* MSGSET.INFO); an OBSERVABLE.INFO or OBSERVABLE.DELETE that names a missing
\* observable of a registered set is answered '-ERR observable not found'; in both
\* cases the registries and the store directory are left as they were.
C22_NotFoundReplies ==
    [][\A p \in Procs : \A h \in LookupHandlers :
          Serves(p, h) /\ ~Unparsable(p, h) /\ ajs[proc[p].acct] # 0
          => LET sets == jsas[ajs[proc[p].acct]].msgSets
                 n == SetNamed(p, h)
             IN  /\ n \notin DOMAIN sets
                    => /\ proc'[p].reply =
                             IF h = "MSGSET.INFO"
                             THEN <<"text", "-ERR 'msgset not found'">>
                             ELSE <<"text", "-ERR msgset not found">>
                       /\ jsas' = jsas /\ disk' = disk /\ js' = js
                 /\ /\ h \in {"OBSERVABLE.INFO", "OBSERVABLE.DELETE"}
                    /\ n \in DOMAIN sets
                    /\ ObsNamed(p) \notin DOMAIN sets[n].obs
                    => /\ proc'[p].reply = <<"text", "-ERR observable not found">>
                       /\ jsas' = jsas /\ disk' = disk /\ js' = js
    ]_vars

\* C22 witness: an OBSERVABLE.DELETE of observable O2 of S1 was answered
\* '-ERR observable not found' while S1 holds observable O1 only.
C22_Witness ==
    \E p \in Procs :
        /\ proc[p].pc = "done" /\ proc[p].op = "OBSERVABLE.DELETE"
        /\ proc[p].body = S1 \o <<" ">> \o O2
        /\ proc[p].reply = ErrReply(ErrObservableNotFound)
        /\ ajs[proc[p].acct] # 0
        /\ S1 \in DOMAIN jsas[ajs[proc[p].acct]].msgSets
        /\ DOMAIN jsas[ajs[proc[p].acct]].msgSets[S1].obs = {O1}

\* C23: updateUsage(kind, delta) adds delta to memUsed when kind is MemoryStorage
\* and to storeUsed otherwise, as one atomic step whatever other updateUsage calls
\* run at the same time: the counter after the call is the counter before its store
\* plus delta, the other counter and the rest of the account are unchanged, adding
\* -delta to the result gives the prior value back, and nothing but updateUsage
\* changes a usage counter.
C23_UpdateUsageAtomic ==
    [][/\ \A p \in Procs :
             proc[p].pc = "uuAdd" /\ Steps(p)
             => LET id == proc[p].jsa
                    d == proc[p].body[2]
                    old == jsas[id]
                    new == jsas'[id]
                IN  /\ IF proc[p].body[1] = MemoryStorage
                       THEN /\ new.memUsed = Wrap(old.memUsed + d)
                            /\ Wrap(new.memUsed - d) = old.memUsed
                            /\ new.storeUsed = old.storeUsed
                       ELSE /\ new.storeUsed = Wrap(old.storeUsed + d)
                            /\ Wrap(new.storeUsed - d) = old.storeUsed
                            /\ new.memUsed = old.memUsed
                    /\ new.limits = old.limits /\ new.msgSets = old.msgSets
       /\ \A id \in 1..Len(jsas) :
             jsas'[id].memUsed # jsas[id].memUsed \/ jsas'[id].storeUsed # jsas[id].storeUsed
             => \E p \in Procs : proc[p].pc = "uuAdd" /\ proc[p].jsa = id /\ Steps(p)
    ]_vars

\* C23 witness: updateUsage(MemoryStorage, -5) has returned after
\* updateUsage(MemoryStorage, 5) and updateUsage(FileStorage, 7): memUsed is back
\* at 0 and storeUsed is 7.
C23_Witness ==
    \E p \in Procs :
        /\ Done(p, "updateUsage", NoErr)
        /\ proc[p].body = <<MemoryStorage, -5>>
        /\ proc[p].used = 5
        /\ jsas[proc[p].jsa].memUsed = 0
        /\ jsas[proc[p].jsa].storeUsed = 7

\* C24: when shutdownJetStream has completed, the server reports JetStream as not
\* enabled (so that JetStreamReservedResources returns an error), every account
\* that was enabled before or during the shutdown has the store of each of its
\* message sets stopped, and no reservation is left in the ledger.
C24_ShutdownComplete ==
    \A p \in Procs :
        Done(p, "Shutdown", NoErr)
        => /\ ~sjs
           /\ \A id \in 1..Len(jsas) :
                 \A n \in DOMAIN jsas[id].msgSets : jsas[id].msgSets[n].storeStopped
           /\ js.memReserved = 0 /\ js.storeReserved = 0

C26_LockOrder ==
    /\ [](\A p \in Procs :
             ~(/\ \E m \in {"r", "w"} : <<"js", m>> \in proc[p].held
               /\ \E a \in Accts, m \in {"r", "w"} : <<JsaOf(a), m>> \in proc[p].held))
    /\ \A p \in Procs : (proc[p].pc = "lk") ~> (proc[p].pc = "done")

\* C26 witness: an update holds the engine lock, and nothing else, while a disable
\* of the same account waits for the engine lock.
C26_Witness ==
    \E p, q \in Procs :
        /\ p # q
        /\ proc[p].pc = "lk" /\ proc[p].op = "Update" /\ proc[p].held = {<<"js", "w">>}
        /\ proc[q].pc = "lk" /\ proc[q].op = "Disable" /\ proc[q].acct = proc[p].acct
        /\ Instr(q) = <<"lock", "js">>

\* The fields the account-state lock guards, and the ledger the engine lock guards.
GuardedFields ==
    { "limits", "memUsed", "storeUsed", "msgSets", "memReserved", "storeReserved" }

\* C29: a goroutine about to read or write an account's limits, memUsed, storeUsed
\* or msgSets holds that account's state lock, and a goroutine about to update
\* the ledger holds the engine lock.
C29_GuardedAccess ==
    \A p \in Procs :
        (/\ proc[p].pc = "lk"
         /\ Instr(p)[1] \in {"read", "write"}
         /\ Instr(p)[3] \in GuardedFields)
            => <<Instr(p)[2], "w">> \in proc[p].held

\* The rejection rules of admission, in their order, for config c on jsAccount jsa:
\* <<the rule matches, the error it reports>>.
AdmissionRules(jsa, c) ==
    << <<jsa.limits.MaxMsgSets > 0
            /\ Cardinality(DOMAIN jsa.msgSets) >= jsa.limits.MaxMsgSets,
         ErrMaxMsgSets>>,
       <<c.Replicas # 1, ErrReplicasN(c.Replicas)>>,
       <<c.MaxObservables > 0 /\ c.MaxObservables > jsa.limits.MaxObservables,
         ErrMaxObservables>>,
       <<c.MaxBytes > 0 /\ c.Storage = MemoryStorage
            /\ jsa.memReserved + c.MaxBytes * c.Replicas > jsa.limits.MaxMemory,
         ErrInsufficientMem>>,
       <<c.MaxBytes > 0 /\ c.Storage = FileStorage
            /\ jsa.storeReserved + c.MaxBytes * c.Replicas > jsa.limits.MaxStore,
         ErrInsufficientStore>> >>

\* The create of goroutine p reaches the limit checks: its name is valid and new.
LimitCheckStep(p) ==
    /\ AdmissionStep(p)
    /\ isValidName(proc[p].body.cfg.Name)
    /\ proc[p].body.cfg.Name \notin DOMAIN jsas[ajs[proc[p].acct]].msgSets

\* C28: a create that reaches the limit checks is answered with the error of the
\* earliest rule its config matches (count of message sets, replicas,
\* MaxObservables, memory or storage for MaxBytes), and with +OK when it matches
\* none.
C28_FirstMatchWins ==
    [][\A p \in Procs :
          LimitCheckStep(p)
          => LET rules == AdmissionRules(jsas[ajs[proc[p].acct]], proc[p].body.cfg)
                 hits == { i \in 1..Len(rules) : rules[i][1] }
             IN  /\ hits = {} => proc'[p].reply = Text(OK)
                 /\ \A i \in hits :
                       (\A j \in hits : i <= j) => proc'[p].reply = ErrReply(rules[i][2])
    ]_vars

\* C28 witness: a create whose config has Replicas 2, MaxObservables 3 and more
\* MaxBytes than the account's storage, sent to an account whose registry is
\* full, was answered 'maximum number of message sets reached'.
C28_Witness ==
    \E p \in Procs :
        /\ proc[p].pc = "done" /\ proc[p].op = "MSGSET.CREATE"
        /\ proc[p].body.valid
        /\ proc[p].body.cfg = MsgSetConfig(S2, FileStorage, 3, 2, 3)
        /\ proc[p].reply = ErrReply(ErrMaxMsgSets)
        /\ ajs[proc[p].acct] # 0
        /\ jsas[ajs[proc[p].acct]].limits.MaxObservables \in 1..2
        /\ S2 \notin DOMAIN jsas[ajs[proc[p].acct]].msgSets

\* A create with Replicas 2 and MaxObservables 3 was answered with the replicas
\* error, and one with Replicas 1, MaxObservables 3 and too many MaxBytes with the
\* MaxObservables error.
C28_LaterRules ==
    \E p \in Procs :
        /\ proc[p].pc = "done" /\ proc[p].op = "MSGSET.CREATE" /\ proc[p].body.valid
        /\ \/ /\ proc[p].body.cfg = MsgSetConfig(S2, FileStorage, 3, 2, 3)
              /\ proc[p].reply = ErrReply(ErrReplicasN(2))
           \/ /\ proc[p].body.cfg = MsgSetConfig(S2, FileStorage, 3, 1, 3)
              /\ proc[p].reply = ErrReply(ErrMaxObservables)

\* The subjects whose handlers only read.
ReadOnlyHandlers == { "ENABLED", "INFO", "MSGSETS", "MSGSET.INFO", "OBSERVABLES", "OBSERVABLE.INFO" }

\* Goroutine p takes a step of a read-only handler: its head or its body.
ReadOnlyStep(p) ==
    /\ Steps(p)
    /\ proc[p].pc \in {"idle", "hServe"}
    /\ proc'[p].op \in ReadOnlyHandlers

ReleaseStep(p) == proc[p].pc = "djLocked" /\ proc'[p].pc = "djDelete"

\* C31: the reservation of an account is released at most once: a disable or a
\* shutdown that runs disableJetStream on a jsAccount that another call has
\* already taken out of the registry leaves the ledger as it is.
C31_ReleasedOnce ==
    [][\A p \in Procs :
          (ReleaseStep(p) /\ js.accounts[jsas[proc[p].jsa].account] # proc[p].jsa)
          => /\ js'.memReserved = js.memReserved
             /\ js'.storeReserved = js.storeReserved
    ]_vars

\* C32: at every quiescent point of a running engine, an account reports
\* JetStreamEnabled() exactly when the engine registry holds an entry for it, and
\* its back-link is that entry.
C32_EnabledIffRegistered ==
    (Quiescent /\ sjs /\ ~crashed) => \A a \in Accts : ajs[a] = js.accounts[a]

\* C33: when an account's EnableJetStream has returned an error, the jsAccount
\* that the call registered, if it registered one, is not in the engine registry,
\* is not the account's back-link, and its limits are not in the ledger (account
\* A is the only one enabled in these runs).
C33_FailedEnableLeavesNothing ==
    \A p \in Procs :
        (~crashed /\ proc[p].pc = "done" /\ proc[p].op = "Enable" /\ proc[p].err # NoErr
            /\ proc[p].jsa # 0)
        => /\ js.accounts[proc[p].acct] # proc[p].jsa
           /\ ajs[proc[p].acct] # proc[p].jsa
           /\ js.memReserved = 0 /\ js.storeReserved = 0

\* C34: when Server.EnableJetStream has returned an error of its set-up (store
\* directory, subscriptions, exports), the server reports JetStreamEnabled() ==
\* false, so that a later EnableJetStream is not refused as 'already enabled'.
C34_FailedServerEnable ==
    \A p \in Procs :
        (proc[p].pc = "done" /\ proc[p].op = "ServerEnable" /\ proc[p].err \in SetupErrors)
        => ~sjs

\* C35: once shutdownJetStream has completed (s.js is nil), no account reports
\* JetStreamEnabled() == true.
C35_NoAccountEnabledAfterShutdown ==
    ~sjs => \A a \in Accts : ajs[a] = 0

\* The account that the operation of goroutine record r works on.
OpAccount(r) == IF r.op = "updateUsage" THEN jsas[r.jsa].account ELSE r.acct

\* The state of account b: its jsAccount objects (limits, usage counters,
\* message sets), its back-link, its registry entry, its imports and its files.
AccountState(b) ==
    [objs |-> [i \in {k \in 1..Len(jsas) : jsas[k].account = b} |-> jsas[i]],
     flag |-> ajs[b], entry |-> js.accounts[b], imports |-> imports[b], files |-> disk[b]]

\* C36: a step of an operation on one account leaves the state of every other
\* account as it was.
C36_OtherAccountsUntouched ==
    [][\A p \in Procs :
          (Steps(p) /\ proc[p].pc # "done")
          => \A b \in Accts \ {OpAccount(proc'[p])} : AccountState(b)' = AccountState(b)
    ]_vars

\* C36 witness: a limits update of account A has succeeded and changed the ledger
\* while account B is enabled.
C36_Witness ==
    \E p \in Procs :
        /\ Done(p, "Update", NoErr) /\ proc[p].acct = "A"
        /\ ajs["B"] # 0 /\ js.accounts["B"] = ajs["B"]
        /\ js.memReserved = 3
        /\ jsas[ajs["B"]].limits.MaxMemory = 1

\* C37: diffCheckedLimits(a, a) is the zero record, and after reserveResources(d)
\* followed by releaseResources(d) the ledger's memReserved and storeReserved are
\* what they were before, for every d, also with zero or negative fields.
C37_DiffAndRoundTrip ==
    \A p \in Procs :
        /\ (proc[p].pc = "done" /\ proc[p].op = "diff" /\ proc[p].jsaLimits = proc[p].limits)
           => proc[p].dl = ZeroLimits
        /\ (proc[p].pc = "done" /\ proc[p].op = "reserve")
           => <<js.memReserved, js.storeReserved>> = proc[p].body

\* C37 witness: a record with a negative MaxMemory and a positive MaxStore was
\* reserved and released on a ledger at the largest value, where the reservation
\* of the storage overflows.
C37_Witness ==
    \E p \in Procs :
        /\ proc[p].pc = "done" /\ proc[p].op = "reserve"
        /\ proc[p].dl.MaxMemory = -1 /\ proc[p].dl.MaxStore = 2
        /\ proc[p].body = <<3, 2 ^ (UsedBits - 1) - 1>>

=============================================================================
